---------------------------- MODULE Spec2Model ----------------------------
(***************************************************************************)
(* Seat reservation and recommendation engine of finSeat.                  *)
(*                                                                         *)
(* SeatService (src/src/services/seatService.ts) owns the desk catalog,    *)
(* BookingHistoryService (bookingHistoryService.ts) owns the ledger, both  *)
(* write through to localStorage.                                          *)
(***************************************************************************)
EXTENDS Integers, Sequences, FiniteSets, TLC

(***************************************************************************)
(* Bounds of the model.                                                    *)
(***************************************************************************)
MaxLedger == 2
MaxNow == 1
MaxFailures == 1

(***************************************************************************)
(* Values.  User names are strings; the character codes that               *)
(* generateEmployeeId reads from them are tabulated in CharCodes.          *)
(***************************************************************************)
NULL == "<null>"
UNDEF == "<undefined>"
\* localStorage.getItem: an absent item, or the stored value.
NoItem == [present |-> FALSE, value |-> << >>]
Item(v) == [present |-> TRUE, value |-> v]

ReservedTeam == "Reserved"
ReservedOccupant == "Reserved Team"
DefaultTeam == "Engineering"

\* office_layout.json: the fields of every desk that never change, in
\* catalog order.
CatalogDesk(id, team, zone, window, monitor, kitchen) ==
  [desk_id |-> id, team |-> team, zone |-> zone, window |-> window,
   monitor |-> monitor, kitchen |-> kitchen]

Catalog ==
  << CatalogDesk("ENG-S-01", "Engineering", "S", TRUE, TRUE, FALSE),
     CatalogDesk("RIS-NW-01", "Risk", "NW", FALSE, FALSE, TRUE),
     CatalogDesk("RES-S-64", ReservedTeam, "S", FALSE, FALSE, FALSE),
     CatalogDesk("ENG-SW-37", "Engineering", "SW", FALSE, TRUE, FALSE),
     CatalogDesk("PRO-NE-12", "Product", "NE", TRUE, FALSE, FALSE),
     CatalogDesk("DEV-W-05", "DevOps", "W", FALSE, FALSE, TRUE),
     CatalogDesk("RIS-NW-02", "Risk", "NW", FALSE, FALSE, FALSE) >>

NumDesks == Len(Catalog)
DeskIdx == 1..NumDesks
CatalogIds == {Catalog[i].desk_id : i \in DeskIdx}
UnknownId == "XXX-X-99"
\* The desk ids the reservation calls are made with.
DeskIdInputs == {"ENG-S-01", "RIS-NW-01", "RES-S-64", UnknownId}

UserNames == {"Aa", "ai"}
UiUserName == "You"

TicksPerDay == 2
BookingDays == 7

\* UTF-16 code units of the names the model uses.
CharCodes(s) ==
  CASE s = "" -> << >>
    [] s = "You" -> << 89, 111, 117 >>
    [] s = "Aa" -> << 65, 97 >>
    [] s = "ai" -> << 97, 105 >>
    [] s = ReservedOccupant -> << 82, 101, 115, 101, 114, 118, 101, 100, 32, 84, 101, 97, 109 >>
    [] s = "ENG" -> << 69, 78, 71 >>
    [] s = "PRO" -> << 80, 82, 79 >>
    [] s = "RISK" -> << 82, 73, 83, 75 >>
    [] s = "IT" -> << 73, 84 >>
    [] s = "DEV" -> << 68, 69, 86 >>
    [] s = "RES" -> << 82, 69, 83 >>
    [] s = "ENG-S-01" -> << 69, 78, 71, 45, 83, 45, 48, 49 >>
    [] s = "RIS-NW-01" -> << 82, 73, 83, 45, 78, 87, 45, 48, 49 >>
    [] s = "RES-S-64" -> << 82, 69, 83, 45, 83, 45, 54, 52 >>
    [] s = "ENG-SW-37" -> << 69, 78, 71, 45, 83, 87, 45, 51, 55 >>
    [] s = "PRO-NE-12" -> << 80, 82, 79, 45, 78, 69, 45, 49, 50 >>
    [] s = "DEV-W-05" -> << 68, 69, 86, 45, 87, 45, 48, 53 >>
    [] s = "RIS-NW-02" -> << 82, 73, 83, 45, 78, 87, 45, 48, 50 >>
    [] s = "XXX-X-99" -> << 88, 88, 88, 45, 88, 45, 57, 57 >>

\* String.fromCharCode for the letters that start a name of the model.
Chr(c) ==
  CASE c = 65 -> "A"
    [] c = 82 -> "R"
    [] c = 89 -> "Y"

\* charAt(0).toUpperCase(): "" for the empty string.
UpperFirst(s) ==
  LET cs == CharCodes(s) IN
  IF Len(cs) = 0 THEN ""
  ELSE IF cs[1] >= 97 /\ cs[1] <= 122 THEN Chr(cs[1] - 32) ELSE Chr(cs[1])

(***************************************************************************)
(* simpleHash: hash = ((hash << 5) - hash) + char, truncated to a signed   *)
(* 32-bit integer after every character, then Math.abs.  The 32-bit word   *)
(* is kept as two 16-bit halves <<hi, lo>> (two's complement).             *)
(***************************************************************************)
HashStep(w, c) ==
  LET lo == 31 * w[2] + c
      hi == 31 * w[1] + (lo \div 65536)
  IN << hi % 65536, lo % 65536 >>

RECURSIVE HashWord(_, _, _)
HashWord(cs, i, w) ==
  IF i > Len(cs) THEN w ELSE HashWord(cs, i + 1, HashStep(w, cs[i]))

\* Math.abs(hash) % 1000 of the 32-bit word w.
AbsMod1000(w) ==
  IF w[1] < 32768
    THEN (w[1] * 65536 + w[2]) % 1000
    ELSE ((((65535 - w[1]) * 65536) % 1000) + (65536 - w[2])) % 1000

simpleHashMod1000(s) == AbsMod1000(HashWord(CharCodes(s), 1, <<0, 0>>))

\* String.prototype.padEnd(4, '0')
RECURSIVE PadEnd4(_)
PadEnd4(s) == IF Len(s) >= 4 THEN s ELSE PadEnd4(s \o "0")

generateEmployeeId(userName) ==
  PadEnd4("E" \o UpperFirst(userName) \o ToString(simpleHashMod1000(userName)))

\* BookingHistoryService.formatDate: the UTC calendar day of an instant.
formatDate(t) == t \div TicksPerDay


(***************************************************************************)
(* State.                                                                  *)
(***************************************************************************)
VARIABLES
  desks,          \* SeatService.data.desks, in catalog order
  historyData,    \* BookingHistoryService.historyData (the ledger)
  lsLayout,       \* localStorage item 'office_layout_state'
  lsHistory,      \* localStorage item 'seat_history_data'
  alias,          \* how officeLayoutData.desks relates to data.desks
  layoutDesks,    \* officeLayoutData.desks when it is a separate array
  now,            \* wall clock, in ticks
  lastCall,       \* the last public call and what it returned
  reservedSince,  \* seats reserved with no release/reset since
  failures        \* localStorage writes that have failed so far

\* App.tsx and the AIRecommendationEngine it owns.
VARIABLES
  seats,          \* React state 'seats' = aiEngine.seats (isAvailable flags)
  zones,          \* React state 'zones', derived once from the desks
  currentHour,    \* aiEngine.currentTime.getHours(), set at construction
  isLoading,      \* React state 'isLoading'
  request,        \* the processUserMessage call suspended at the await
  response,       \* aiResponse of handleSendMessage, until the next handler
  bookedInFlight, \* seats booked since the suspended request started
  scoreCall,      \* the last call of calculateSeatScore made on its own
  sharedPreferences, \* the base profile object every request is given
  extractCalls    \* calls of extractPreferencesFromMessage made on their own

resVars == << desks, historyData, lsLayout, lsHistory, alias, layoutDesks,
              now, lastCall, reservedSince, failures >>
chatVars == << seats, zones, currentHour, isLoading, request, response,
               bookedInFlight, scoreCall, sharedPreferences, extractCalls >>
vars == << resVars, chatVars >>

NoDate == 0 - 1
\* <<userName, userTeam, startDate, endDate>> arguments of reserveSeat: the
\* team and the interval are given or omitted.
ReserveInputs ==
  { <<"Aa", "Risk", NoDate, NoDate>>,
    <<"ai", UNDEF, NoDate, NoDate>>,
    <<"", UNDEF, 0, 3>> }

Desk(i, st, who) ==
  [desk_id |-> Catalog[i].desk_id, team |-> Catalog[i].team,
   status |-> st, reserved_for |-> who]

\* The states a desk of office_layout.json may be stored in.
InitialDeskStates(i) ==
  IF Catalog[i].team = ReservedTeam
    THEN {Desk(i, "occupied", ReservedOccupant), Desk(i, "available", NULL)}
    ELSE IF Catalog[i].desk_id \in DeskIdInputs
      THEN {Desk(i, "available", NULL), Desk(i, "occupied", "Aa")}
      ELSE {Desk(i, "available", NULL)}

\* seat_history.json: the seeded ledger.
SeedEntry ==
  [employee_id |-> "EA112", employee_name |-> "ai", team |-> "Risk",
   desk_id |-> "ENG-S-01", start_date |-> 0, end_date |-> 0,
   remote_ratio |-> 3]
SeedLedgers == { << >>, << SeedEntry >> }

(***************************************************************************)
(* Seats, zones and preferences of the recommendation engine.              *)
(***************************************************************************)
\* String.prototype.includes on the zone labels of the catalog.
ZoneIncludes(zone, sub) ==
  CASE zone = "S" -> sub \in {"S"}
    [] zone = "W" -> sub \in {"W"}
    [] zone = "NW" -> sub \in {"N", "W", "NW"}
    [] zone = "NE" -> sub \in {"N", "E", "NE"}
    [] zone = "SW" -> sub \in {"S", "W", "SW"}
    [] zone = "SE" -> sub \in {"S", "E", "SE"}

mapZoneToType(zone) ==
  IF ZoneIncludes(zone, "NW") \/ ZoneIncludes(zone, "NE") THEN "quiet"
  ELSE IF ZoneIncludes(zone, "SW") \/ ZoneIncludes(zone, "SE")
    THEN "collaborative"
  ELSE IF ZoneIncludes(zone, "W") THEN "focus"
  ELSE "social"

\* officeLayout.ts 'seats': the features of the seat built from desk i.
SeatFeatures(i) ==
  (IF Catalog[i].monitor THEN << "monitor" >> ELSE << >>)
  \o (IF Catalog[i].window THEN << "window-view" >> ELSE << >>)
  \o (IF Catalog[i].kitchen THEN << "near-kitchen" >> ELSE << >>)
  \o (IF mapZoneToType(Catalog[i].zone) = "quiet" THEN << "quiet" >> ELSE << >>)
  \o (IF mapZoneToType(Catalog[i].zone) = "collaborative"
        THEN << "collaborative" >> ELSE << >>)

\* The Seat the engine sees for desk i.  deskToSeat returns the
\* officeLayout.ts seat, which has no aisle, isColdArea or window property.
Seat(i) ==
  [id |-> Catalog[i].desk_id,
   zone |-> mapZoneToType(Catalog[i].zone),
   features |-> SeatFeatures(i),
   toNearestWindow |-> IF Catalog[i].window THEN 1 ELSE 10,
   aisle |-> FALSE,
   isColdArea |-> FALSE,
   window |-> FALSE]

SeqIncludes(q, x) == \E k \in DOMAIN q : q[k] = x

\* App.tsx initial 'seats': availability copied from the seat service.
InitialSeats(ds) ==
  [i \in DeskIdx |->
     [isAvailable |-> ds[i].status = "available",
      currentUser |-> ds[i].reserved_for]]

\* Math.round(occupied / length * 100)
RoundPercent(occupied, length) == (200 * occupied + length) \div (2 * length)

\* The zone labels in order of first appearance.
RECURSIVE ZoneNames(_)
ZoneNames(i) ==
  IF i = 0 THEN << >>
  ELSE LET before == ZoneNames(i - 1) IN
       IF SeqIncludes(before, Catalog[i].zone) THEN before
       ELSE Append(before, Catalog[i].zone)

\* deriveZonesFromDesks: every zone gets the fallback type.
deriveZonesFromDesks(ds) ==
  LET names == ZoneNames(NumDesks) IN
  [k \in DOMAIN names |->
     LET members == {i \in DeskIdx : Catalog[i].zone = names[k]}
         occupied == {i \in members : ds[i].status \in {"occupied", "reserved"}}
     IN [type |-> "collaborative", name |-> names[k],
         currentActivity |-> RoundPercent(Cardinality(occupied),
                                          Cardinality(members))]]

\* sampleUserPreferences
sampleUserPreferences ==
  [team |-> "Engineering",
   workStyle |-> "mixed",
   collaborationNeeds |-> "medium",
   preferredZones |-> {"collaborative", "focus"},
   timePreferences |-> [morningPerson |-> TRUE, afternoonFocus |-> TRUE],
   seatFeatures |-> << "monitor", "window-view", "standing-desk" >>,
   amenityPreferences |->
     [avoidColdAreas |-> TRUE, preferAisle |-> FALSE,
      nearMeetingRooms |-> TRUE],
   \* (preferences as any).nearWindow: FALSE stands for undefined
   nearWindow |-> FALSE]

\* sampleSchedule: type and start of every event, in hours after load.
sampleSchedule ==
  << [type |-> "meeting", startsIn |-> 2],
     [type |-> "focus-work", startsIn |-> 4] >>

(***************************************************************************)
(* Messages.  Keywords lists, for every message of the model, the search   *)
(* strings that message.toLowerCase() includes.                            *)
(***************************************************************************)
Messages ==
  {"Find me a seat", "Window seat please", "Hello",
   "Quiet desk for the Risk team"}

Keywords(message) ==
  CASE message = "Find me a seat" -> {"find", "seat"}
    [] message = "Window seat please" -> {"seat", "window"}
    [] message = "Hello" -> {}
    [] message = "Quiet desk for the Risk team" ->
         {"desk", "quiet", "team", "risk"}
    [] message = "Standing desk with a monitor and a view" ->
         {"desk", "standing", "monitor", "view"}

Includes(message, keyword) == keyword \in Keywords(message)

IncludesAny(message, keywords) == \E k \in keywords : Includes(message, k)

isSeatingRequest(message) ==
  IncludesAny(message,
    {"recommend", "suggest", "find", "seat", "desk", "where should i sit",
     "best place", "good spot", "need a seat", "book", "reserve", "window"})

\* if (!features.includes(f)) features.push(f)
PushUnique(features, f) ==
  IF SeqIncludes(features, f) THEN features ELSE Append(features, f)

extractPreferencesFromMessage(message, basePreferences) ==
  LET p1 == IF IncludesAny(message, {"window", "view"})
              THEN [basePreferences EXCEPT
                      !.seatFeatures = PushUnique(@, "window-view"),
                      !.nearWindow = TRUE]
              ELSE basePreferences
      p2 == IF IncludesAny(message, {"quiet", "focus", "concentrated"})
              THEN [p1 EXCEPT !.workStyle = "quiet",
                              !.collaborationNeeds = "low"]
              ELSE p1
      p3 == IF IncludesAny(message, {"collaborate", "team", "brainstorm"})
              THEN [p2 EXCEPT !.workStyle = "social",
                              !.collaborationNeeds = "high"]
              ELSE p2
      p4 == IF Includes(message, "standing")
              THEN [p3 EXCEPT !.seatFeatures = PushUnique(@, "standing-desk")]
              ELSE p3
      p5 == IF IncludesAny(message, {"monitor", "screen"})
              THEN [p4 EXCEPT !.seatFeatures = PushUnique(@, "monitor")]
              ELSE p4
  IN IF IncludesAny(message, {"devops", "dev ops"})
       THEN [p5 EXCEPT !.team = "DevOps"]
     ELSE IF IncludesAny(message, {"engineering", "eng"})
       THEN [p5 EXCEPT !.team = "Engineering"]
     ELSE IF IncludesAny(message, {"product", "prod"})
       THEN [p5 EXCEPT !.team = "Product"]
     ELSE IF Includes(message, "risk")
       THEN [p5 EXCEPT !.team = "Risk"]
     ELSE IF IncludesAny(message, {"it security", "security"})
       THEN [p5 EXCEPT !.team = "IT Security"]
     ELSE p5

(***************************************************************************)
(* What extractPreferencesFromMessage leaves in the object it was given.   *)
(* updatedPreferences = { ...basePreferences } copies the fields, so its   *)
(* seatFeatures is the array of basePreferences until it is assigned a     *)
(* copy; a push onto a shared array shows in both objects.                 *)
(***************************************************************************)
\* const updatedPreferences = { ...basePreferences }
ShallowCopy(basePreferences) ==
  [updated |-> basePreferences, base |-> basePreferences, shared |-> TRUE]

\* Mutant: the array is not copied before the push.
CopyFeatures_sameArray(m) == m

\* updatedPreferences.seatFeatures = [...(updatedPreferences.seatFeatures || [])]
CopyFeatures(m) == [m EXCEPT !.shared = FALSE]

\* if (!seatFeatures.includes(f)) seatFeatures.push(f)
PushFeature(m, f) ==
  IF SeqIncludes(m.updated.seatFeatures, f) THEN m
  ELSE [m EXCEPT !.updated.seatFeatures = Append(@, f),
                 !.base.seatFeatures = IF m.shared THEN Append(@, f) ELSE @]

AddFeature(m, f) == PushFeature(CopyFeatures(m), f)

\* The fields of basePreferences when the call returns: the other
\* assignments of the function are to fields of updatedPreferences.
BaseAfterExtract(message, basePreferences) ==
  LET m0 == ShallowCopy(basePreferences)
      m1 == IF IncludesAny(message, {"window", "view"})
              THEN AddFeature(m0, "window-view") ELSE m0
      m2 == IF Includes(message, "standing")
              THEN AddFeature(m1, "standing-desk") ELSE m1
      m3 == IF IncludesAny(message, {"monitor", "screen"})
              THEN AddFeature(m2, "monitor") ELSE m2
  IN m3.base

(***************************************************************************)
(* calculateSeatScore.  Scores are kept in units of 1/ScoreScale point so  *)
(* that the feature ratio and activity / 20 stay whole numbers.            *)
(***************************************************************************)
ScoreScale == 60
Pts(n) == n * ScoreScale
Min(a, b) == IF a <= b THEN a ELSE b
Max(a, b) == IF a >= b THEN a ELSE b
Abs(a) == IF a >= 0 THEN a ELSE 0 - a

\* getSeatPopularityData().get(seatId)
SeatPopularity(h, seatId) ==
  LET ks == {k \in DOMAIN h : h[k].desk_id = seatId} IN
  [count |-> Cardinality(ks), teams |-> {h[k].team : k \in ks}]

getHistoryBonus(h, seat, preferences) ==
  LET seatData == SeatPopularity(h, seat.id) IN
  IF preferences.team = "" THEN 0
  ELSE IF seatData.count = 0 THEN 0
  ELSE (IF preferences.team \in seatData.teams THEN 15 ELSE 0)
       + (IF seatData.count >= 5 THEN Min(seatData.count, 5) ELSE 0)

\* String.prototype.startsWith
StartsWith(str, prefix) ==
  LET a == CharCodes(str)
      b == CharCodes(prefix)
  IN Len(b) <= Len(a) /\ \A k \in DOMAIN b : a[k] = b[k]

teamPrefixes ==
  << <<"ENG", "Engineering">>, <<"PRO", "Product">>, <<"RISK", "Risk">>,
     <<"IT", "IT Security">>, <<"DEV", "DevOps">>, <<"RES", "Reserved">> >>

getTeamZoneBonus(seat, userTeam) ==
  IF \E k \in DOMAIN teamPrefixes :
       StartsWith(seat.id, teamPrefixes[k][1]) /\ teamPrefixes[k][2] = userTeam
    THEN 15 ELSE 0

getZoneCompatibilityScore(zoneType, preferences) ==
  LET compatibleZones ==
        CASE preferences.workStyle = "quiet" -> {"quiet", "focus"}
          [] preferences.workStyle = "social" -> {"social", "collaborative"}
          [] preferences.workStyle = "mixed" -> {"collaborative", "focus"}
          [] OTHER -> {}
  IN IF zoneType \in compatibleZones THEN 15 ELSE 5

\* zoneScores[workStyle]?.[seat.zone] || 8
getWorkStyleScore(seat, workStyle) ==
  LET z == seat.zone
      v == CASE workStyle = "quiet" ->
                  (CASE z = "quiet" -> 15 [] z = "focus" -> 12
                     [] z = "collaborative" -> 3 [] z = "social" -> 1
                     [] z = "meeting" -> 0 [] OTHER -> 0)
             [] workStyle = "social" ->
                  (CASE z = "social" -> 15 [] z = "collaborative" -> 12
                     [] z = "meeting" -> 10 [] z = "focus" -> 5
                     [] z = "quiet" -> 3 [] OTHER -> 0)
             [] workStyle = "mixed" ->
                  (CASE z = "collaborative" -> 15 [] z = "focus" -> 13
                     [] z = "social" -> 10 [] z = "quiet" -> 9
                     [] z = "meeting" -> 7 [] OTHER -> 0)
             [] OTHER -> 0
  IN IF v = 0 THEN 8 ELSE v

getTimePreferenceScore(timePrefs, hour) ==
  5 + (IF timePrefs.morningPerson /\ hour < 12 THEN 5
       ELSE IF ~timePrefs.morningPerson /\ hour >= 12 THEN 5 ELSE 0)
    + (IF timePrefs.afternoonFocus /\ hour >= 13 /\ hour <= 17 THEN 3 ELSE 0)

getCollaborationScore(seat, collaborationNeeds) ==
  LET isCollabZone == seat.zone \in {"collaborative", "social", "meeting"} IN
  CASE collaborationNeeds = "high" -> IF isCollabZone THEN 10 ELSE 3
    [] collaborationNeeds = "medium" -> IF isCollabZone THEN 8 ELSE 6
    [] collaborationNeeds = "low" -> IF isCollabZone THEN 4 ELSE 9
    [] OTHER -> 5

\* Meetings that start after currentTime and before currentTime + 4 hours.
getMeetingProximityBonus(seat, schedule) ==
  LET upcomingMeetings ==
        {k \in DOMAIN schedule :
           /\ schedule[k].type = "meeting"
           /\ schedule[k].startsIn > 0
           /\ schedule[k].startsIn < 4}
  IN IF upcomingMeetings = {} THEN 0
     ELSE IF seat.zone \in {"meeting", "collaborative"} THEN 5 ELSE 0

\* getActivityLevelScore, in 1/ScoreScale points (activity / 20 = 3/60 each).
getActivityLevelScore(zone, preferences) ==
  LET a == zone.currentActivity IN
  IF preferences.workStyle = "quiet" THEN Max(0, Pts(5) - 3 * a)
  ELSE IF preferences.workStyle = "social" THEN Min(Pts(5), 3 * a)
  ELSE Pts(5) - 3 * Abs(a - 50)

getAmenityScore(seat, amenityPrefs) ==
  (IF amenityPrefs.avoidColdAreas /\ seat.isColdArea THEN 0 - 15 ELSE 0)
  + (IF amenityPrefs.preferAisle /\ seat.aisle THEN 10 ELSE 0)

\* hasWindowFeature || isCloseToWindow || hasRawWindowProperty
IsWindowSeat(seat) ==
  \/ SeqIncludes(seat.features, "window-view")
  \/ seat.toNearestWindow < 5
  \/ seat.window

\* this.zones.find(z => z.type === seat.zone): its index, 0 when none.
FindZone(zs, zoneType) ==
  IF \E k \in DOMAIN zs : zs[k].type = zoneType
    THEN CHOOSE k \in DOMAIN zs :
           zs[k].type = zoneType /\ \A j \in DOMAIN zs : zs[j].type = zoneType => k <= j
    ELSE 0

\* Mutant: the sum is returned without Math.min(score, maxScore).
calculateSeatScore_uncapped(h, zs, hour, seat, preferences, schedule) ==
  LET matched == Cardinality({k \in DOMAIN seat.features :
                                SeqIncludes(preferences.seatFeatures,
                                            seat.features[k])})
      featureMatch10 ==
        (Pts(10) * matched) \div Max(Len(preferences.seatFeatures), 1)
      z == FindZone(zs, seat.zone)
      score ==
        Pts(50)
        + Pts(Min(getHistoryBonus(h, seat, preferences), 20))
        + Pts(Min(getTeamZoneBonus(seat, preferences.team), 15))
        + (IF seat.zone \in preferences.preferredZones
             THEN Pts(20)
             ELSE Pts(Min(getZoneCompatibilityScore(seat.zone, preferences), 10)))
        + Pts(Min(getWorkStyleScore(seat, preferences.workStyle), 15))
        + featureMatch10
        + (IF preferences.nearWindow
             THEN (IF IsWindowSeat(seat) THEN Pts(25) ELSE 0 - Pts(25))
             ELSE 0)
        + Pts(Min(getTimePreferenceScore(preferences.timePreferences, hour), 10))
        + Pts(Min(getCollaborationScore(seat, preferences.collaborationNeeds), 10))
        + Pts(Min(getMeetingProximityBonus(seat, schedule), 5))
        + (IF z # 0 THEN Min(getActivityLevelScore(zs[z], preferences), Pts(5))
           ELSE 0)
        + Pts(Min(getAmenityScore(seat, preferences.amenityPreferences), 5))
  IN score

calculateSeatScore(h, zs, hour, seat, preferences, schedule) ==
  LET matched == Cardinality({k \in DOMAIN seat.features :
                                SeqIncludes(preferences.seatFeatures,
                                            seat.features[k])})
      featureMatch10 ==
        (Pts(10) * matched) \div Max(Len(preferences.seatFeatures), 1)
      z == FindZone(zs, seat.zone)
      score ==
        Pts(50)
        + Pts(Min(getHistoryBonus(h, seat, preferences), 20))
        + Pts(Min(getTeamZoneBonus(seat, preferences.team), 15))
        + (IF seat.zone \in preferences.preferredZones
             THEN Pts(20)
             ELSE Pts(Min(getZoneCompatibilityScore(seat.zone, preferences), 10)))
        + Pts(Min(getWorkStyleScore(seat, preferences.workStyle), 15))
        + featureMatch10
        + (IF preferences.nearWindow
             THEN (IF IsWindowSeat(seat) THEN Pts(25) ELSE 0 - Pts(25))
             ELSE 0)
        + Pts(Min(getTimePreferenceScore(preferences.timePreferences, hour), 10))
        + Pts(Min(getCollaborationScore(seat, preferences.collaborationNeeds), 10))
        + Pts(Min(getMeetingProximityBonus(seat, schedule), 5))
        + (IF z # 0 THEN Min(getActivityLevelScore(zs[z], preferences), Pts(5))
           ELSE 0)
        + Pts(Min(getAmenityScore(seat, preferences.amenityPreferences), 5))
  IN Min(score, Pts(100))

(***************************************************************************)
(* generateRecommendations: filter the available seats, score, sort by     *)
(* descending score (Array.prototype.sort is stable), keep the first 5.    *)
(***************************************************************************)
Rec(seatId, score) == [seat |-> seatId, score |-> score]

\* Array.prototype.slice(0, n).  The list is evaluated once, as the only
\* element of a set; so are the arguments of the loops below.
Take(list, n) ==
  CHOOSE taken \in {SubSeq(q, 1, Min(n, Len(q))) : q \in {list \o << >>}} : TRUE

\* Mutant: entries with the same score come out in reverse order.
RankByScore_tiesReversed(q, k) ==
  Cardinality({j \in DOMAIN q :
                 \/ q[j].score > q[k].score
                 \/ q[j].score = q[k].score /\ j > k}) + 1

\* The place of q[k] after sort((a, b) => b.score - a.score): behind every
\* entry with a higher score and every earlier entry with the same score
\* (Array.prototype.sort is stable).
RankByScore(q, k) ==
  Cardinality({j \in DOMAIN q :
                 \/ q[j].score > q[k].score
                 \/ q[j].score = q[k].score /\ j < k}) + 1

\* The list is evaluated once, as the only element of a set.
SortByScore(unsorted) ==
  CHOOSE sorted \in
    { [p \in DOMAIN q |-> q[CHOOSE k \in DOMAIN q : RankByScore(q, k) = p]] :
        q \in {unsorted \o << >>} } : TRUE

\* The p-th smallest element of a set of indices.
Nth(S, p) == CHOOSE i \in S : Cardinality({j \in S : j < i}) = p - 1

\* Mutant: the seats are scored without the filter on isAvailable.
ScoreAvailable_everySeat(ss, h, zs, hour, preferences, schedule) ==
  [i \in DOMAIN ss |->
     Rec(Seat(i).id,
         calculateSeatScore(h, zs, hour, Seat(i), preferences, schedule))]

\* this.seats.filter(seat => seat.isAvailable).map(seat => ({seat, score}))
ScoreAvailable(ss, h, zs, hour, preferences, schedule) ==
  LET availableSeats == {i \in DOMAIN ss : ss[i].isAvailable} IN
  [p \in 1..Cardinality(availableSeats) |->
     CHOOSE scored \in
       { Rec(Seat(i).id,
             calculateSeatScore(h, zs, hour, Seat(i), preferences, schedule)) :
           i \in {Nth(availableSeats, p)} } : TRUE]

generateRecommendations(ss, h, zs, hour, preferences, schedule) ==
  Take(SortByScore(ScoreAvailable(ss, h, zs, hour, preferences, schedule)), 5)

SeatIndex(seatId) ==
  IF seatId \in CatalogIds
    THEN CHOOSE i \in DeskIdx : Catalog[i].desk_id = seatId ELSE 0

\* recommendations.filter(isWindowSeat)
RECURSIVE WindowOnly(_)
WindowOnly(recs) ==
  IF recs = << >> THEN << >>
  ELSE (IF IsWindowSeat(Seat(SeatIndex(Head(recs).seat)))
          THEN << Head(recs) >> ELSE << >>) \o WindowOnly(Tail(recs))

\* this.seats.filter(available window seats).slice(0, 3) scored 95, 92, 89
RECURSIVE AllWindowSeats(_, _)
AllWindowSeats(i, ss) ==
  IF i > NumDesks THEN << >>
  ELSE (IF ss[i].isAvailable /\ IsWindowSeat(Seat(i))
          THEN << Seat(i).id >> ELSE << >>) \o AllWindowSeats(i + 1, ss)

ManualWindowRecommendations(ss) ==
  LET ws == Take(AllWindowSeats(1, ss), 3) IN
  [k \in DOMAIN ws |-> Rec(ws[k], Pts(95 - (k - 1) * 3))]

\* The recommendations processUserMessage holds when it reaches the LLM
\* call; noWindow = it returned early with 'no window seats'.
InitialRecommendations(message, ss, h, zs, hour, userPreferences, userSchedule) ==
  LET enhanced == extractPreferencesFromMessage(message, userPreferences)
      recs == generateRecommendations(ss, h, zs, hour, enhanced, userSchedule)
      windowRecs == WindowOnly(recs)
      manual == ManualWindowRecommendations(ss)
  IN IF ~isSeatingRequest(message)
       THEN [recommendations |-> << >>, noWindow |-> FALSE]
     ELSE IF ~Includes(message, "window")
       THEN [recommendations |-> recs, noWindow |-> FALSE]
     ELSE IF windowRecs # << >>
       THEN [recommendations |-> windowRecs, noWindow |-> FALSE]
     ELSE IF manual # << >>
       THEN [recommendations |-> manual, noWindow |-> FALSE]
     ELSE [recommendations |-> << >>, noWindow |-> TRUE]

(***************************************************************************)
(* The external response.  A text is the sequence of its tokens: a token   *)
(* is a seat mention "<id> (<n>% ...)" or other words.                     *)
(***************************************************************************)
Mention(seatId, percentage) ==
  [mention |-> TRUE, seatId |-> seatId, percentage |-> percentage]
Words == [mention |-> FALSE, seatId |-> "", percentage |-> 0]

RECURSIVE Matches(_)
Matches(text) ==
  IF text = << >> THEN << >>
  ELSE (IF Head(text).mention
          THEN << [seatId |-> Head(text).seatId,
                   percentage |-> Head(text).percentage] >>
          ELSE << >>) \o Matches(Tail(text))

extractSeatIDsFromLLMResponse(text) == Take(Matches(text), 3)

RecIndex(recs, seatId) ==
  IF \E k \in DOMAIN recs : recs[k].seat = seatId
    THEN CHOOSE k \in DOMAIN recs :
           recs[k].seat = seatId /\ \A j \in DOMAIN recs : recs[j].seat = seatId => k <= j
    ELSE 0

\* Mutant: a named seat that the internal list lacks is never looked up
\* among the seats.
AlignNamed_onlyInternal(llmSeats, originalRecommendations, ss) ==
  SelectSeq([k \in DOMAIN llmSeats |->
               Rec(llmSeats[k].seatId, Pts(llmSeats[k].percentage))],
            LAMBDA r : RecIndex(originalRecommendations, r.seat) # 0)

\* Mutant: a named seat is taken whether it is known and available or not.
AlignNamed_keepsEvery(llmSeats, originalRecommendations, ss) ==
  [k \in DOMAIN llmSeats |->
     Rec(llmSeats[k].seatId, Pts(llmSeats[k].percentage))]

\* The first loop of alignRecommendationsWithLLM.
RECURSIVE AlignNamed(_, _, _)
AlignNamed(llmSeats, originalRecommendations, ss) ==
  IF llmSeats = << >> THEN << >>
  ELSE CHOOSE aligned \in
    { LET k == RecIndex(originalRecommendations, llmSeat.seatId)
          i == SeatIndex(llmSeat.seatId)
          found ==
            IF k # 0
              THEN << Rec(llmSeat.seatId, Pts(llmSeat.percentage)) >>
            ELSE IF i # 0 /\ ss[i].isAvailable
              THEN << Rec(llmSeat.seatId, Pts(llmSeat.percentage)) >>
            ELSE << >>
      IN found \o AlignNamed(Tail(llmSeats), originalRecommendations, ss) :
        llmSeat \in {Head(llmSeats)} } : TRUE

\* Mutant: the alternatives keep the score of the internal list.
Backfill_keepsScore(alignedRecommendations, originalRecommendations) ==
  alignedRecommendations
    \o SelectSeq(originalRecommendations,
                 LAMBDA r : RecIndex(alignedRecommendations, r.seat) = 0)

\* The while loop of alignRecommendationsWithLLM.
RECURSIVE Backfill(_, _)
Backfill(alignedRecommendations, originalRecommendations) ==
  CHOOSE filled \in
    { IF Len(aligned) < 3 /\ Len(aligned) < Len(originalRecommendations)
        THEN LET rest == {k \in DOMAIN originalRecommendations :
                            RecIndex(aligned, originalRecommendations[k].seat) = 0}
             IN IF rest # {}
                  THEN LET first == CHOOSE k \in rest : \A j \in rest : k <= j
                           nextOriginal == originalRecommendations[first]
                       IN Backfill(
                            Append(aligned,
                                   Rec(nextOriginal.seat,
                                       Min(nextOriginal.score - Pts(10),
                                           Pts(80)))),
                            originalRecommendations)
                  ELSE aligned
        ELSE aligned :
        aligned \in {alignedRecommendations \o << >>} } : TRUE

alignRecommendationsWithLLM(llmSeats, originalRecommendations, ss) ==
  Backfill(AlignNamed(llmSeats, originalRecommendations, ss),
           originalRecommendations)

(***************************************************************************)
(* processUserMessage, split at its await, and the App.tsx handlers.       *)
(***************************************************************************)
NoRequest == [pending |-> FALSE, message |-> "", recommendations |-> << >>]
NoResponse == [delivered |-> FALSE, fallback |-> FALSE, message |-> << >>,
               recommendations |-> << >>]
\* recommendations << >> stands for an absent or empty list.
\* message is the text of the LLM, << >> for a text the engine wrote itself.
Response(message, recs, fallback) ==
  [delivered |-> TRUE, fallback |-> fallback, message |-> message,
   recommendations |-> recs]


\* lastCall: op and deskId of the last public call, the occupant it booked
\* or released, what it returned, whether it threw, and whether the call
\* before it was the same operation on the same desk id.
NoCall == [op |-> "none", deskId |-> "", userName |-> "", userTeam |-> "",
           ret |-> FALSE, threw |-> FALSE, again |-> FALSE]

MorningHour == 9
AfternoonHour == 14
Hours == {MorningHour, AfternoonHour}

\* The seat service and the ledger once their modules are loaded.
InitService(deskStates) ==
  /\ desks \in [DeskIdx -> UNION {deskStates[i] : i \in DeskIdx}]
  /\ \A i \in DeskIdx : desks[i] \in deskStates[i]
  /\ historyData \in SeedLedgers
  /\ lsLayout = NoItem
  /\ lsHistory = NoItem
  /\ alias = "object"
  /\ layoutDesks = << >>
  /\ now = 0
  /\ lastCall = NoCall
  /\ reservedSince = {}
  /\ failures = 0

\* calculateSeatScore has not been called on its own.
NotScored == [called |-> FALSE]

\* The first render of App: seats, zones and the engine are built once.
InitApp(hours) ==
  /\ seats = InitialSeats(desks)
  /\ zones = deriveZonesFromDesks(desks)
  /\ currentHour \in hours
  /\ isLoading = FALSE
  /\ request = NoRequest
  /\ response = NoResponse
  /\ bookedInFlight = {}
  /\ scoreCall = NotScored
  /\ sharedPreferences = sampleUserPreferences
  /\ extractCalls = << >>

\* Before App is rendered there is no React state and no engine: the seat
\* service is a module-level singleton that its callers use on its own.
NotMounted ==
  /\ seats = << >>
  /\ zones = << >>
  /\ currentHour = 0
  /\ isLoading = FALSE
  /\ request = NoRequest
  /\ response = NoResponse
  /\ bookedInFlight = {}
  /\ scoreCall = NotScored
  /\ sharedPreferences = sampleUserPreferences
  /\ extractCalls = << >>

Init == InitService([i \in DeskIdx |-> InitialDeskStates(i)]) /\ NotMounted

(***************************************************************************)
(* SeatService queries.                                                    *)
(***************************************************************************)
\* Mutant: an unknown id falls back to the first desk.
getDeskById_fallsBack(ds, deskId) ==
  IF \E i \in DOMAIN ds : ds[i].desk_id = deskId
    THEN CHOOSE i \in DOMAIN ds :
           /\ ds[i].desk_id = deskId
           /\ \A j \in DOMAIN ds : ds[j].desk_id = deskId => i <= j
    ELSE 1

\* getDeskById: index of the first desk with that id, 0 when there is none.
getDeskById(ds, deskId) ==
  IF \E i \in DOMAIN ds : ds[i].desk_id = deskId
    THEN CHOOSE i \in DOMAIN ds :
           /\ ds[i].desk_id = deskId
           /\ \A j \in DOMAIN ds : ds[j].desk_id = deskId => i <= j
    ELSE 0

\* Mutant: the status test is dropped.
isSeatAvailable_ignoresStatus(ds, deskId) ==
  LET i == getDeskById(ds, deskId) IN
  IF i # 0 THEN ds[i].team # ReservedTeam ELSE FALSE

\* Mutant: the team test is dropped.
isSeatAvailable_ignoresTeam(ds, deskId) ==
  LET i == getDeskById(ds, deskId) IN
  IF i # 0 THEN ds[i].status = "available" ELSE FALSE

isSeatAvailable(ds, deskId) ==
  LET i == getDeskById(ds, deskId) IN
  IF i # 0
    THEN ds[i].status = "available" /\ ds[i].team # ReservedTeam
    ELSE FALSE

(***************************************************************************)
(* BookingHistoryService.                                                  *)
(***************************************************************************)
\* saveToLocalStorage: setItem inside try/catch; ok says whether setItem
\* succeeds.  Yields the item afterwards and whether the call threw.
saveToLocalStorage(h, ok, stored) ==
  [stored |-> IF ok THEN Item(h) ELSE stored, threw |-> FALSE]

\* Mutant: the entry carries the default team instead of the caller's.
NewEntry_defaultTeam(booking) ==
  [employee_id |-> booking.employeeId,
   employee_name |-> booking.employeeName,
   team |-> DefaultTeam,
   desk_id |-> booking.deskId,
   start_date |-> formatDate(booking.startDate),
   end_date |-> formatDate(booking.endDate),
   remote_ratio |-> 5]

NewEntry(booking) ==
  [employee_id |-> booking.employeeId,
   employee_name |-> booking.employeeName,
   team |-> booking.team,
   desk_id |-> booking.deskId,
   start_date |-> formatDate(booking.startDate),
   end_date |-> formatDate(booking.endDate),
   remote_ratio |-> 5]

\* addBookingToHistory: push, then saveToLocalStorage.
addBookingToHistory(h, booking, ok, stored) ==
  LET newH == Append(h, NewEntry(booking))
      save == saveToLocalStorage(newH, ok, stored)
  IN [history |-> newH, stored |-> save.stored, threw |-> save.threw]

RECURSIVE FilterOut(_, _, _)
\* Mutant: every entry of the desk is removed, whoever booked it.
FilterOut_byDeskOnly(h, deskId, employeeId) ==
  SelectSeq(h, LAMBDA entry : entry.desk_id # deskId)

\* Mutant: every entry of the employee is removed, whatever the desk.
FilterOut_byEmployeeOnly(h, deskId, employeeId) ==
  SelectSeq(h, LAMBDA entry : entry.employee_id # employeeId)

\* Mutant: only the first matching entry is removed.
FilterOut_firstOnly(h, deskId, employeeId) ==
  IF h = << >> THEN << >>
  ELSE IF Head(h).desk_id = deskId /\ Head(h).employee_id = employeeId
         THEN Tail(h)
         ELSE << Head(h) >> \o FilterOut(Tail(h), deskId, employeeId)

FilterOut(h, deskId, employeeId) ==
  IF h = << >> THEN << >>
  ELSE LET rest == FilterOut(Tail(h), deskId, employeeId) IN
       IF Head(h).desk_id = deskId /\ Head(h).employee_id = employeeId
         THEN rest
         ELSE << Head(h) >> \o rest

\* removeBookingFromHistory: filter, and save only when something went.
removeBookingFromHistory(h, deskId, employeeId, ok, stored) ==
  LET newH == FilterOut(h, deskId, employeeId)
      save == saveToLocalStorage(newH, ok, stored)
  IN IF Len(newH) < Len(h)
       THEN [history |-> newH, stored |-> save.stored, threw |-> save.threw,
             wrote |-> TRUE]
       ELSE [history |-> newH, stored |-> stored, threw |-> FALSE,
             wrote |-> FALSE]

(***************************************************************************)
(* persistToStorage / updateInMemoryData.  A failed setItem is caught and  *)
(* skips updateInMemoryData.  a and layout are the aliasing of             *)
(* officeLayoutData.desks before the call.                                 *)
(***************************************************************************)
\* Mutant: no try/catch around setItem.
persistToStorage_uncaught(newDesks, a, layout, ok, stored) ==
  [stored |-> IF ok THEN Item(newDesks) ELSE stored,
   alias |-> IF ok /\ a = "none" THEN "array" ELSE a,
   layout |-> IF ok \/ a # "none" THEN << >> ELSE layout,
   threw |-> ~ok]

persistToStorage(newDesks, a, layout, ok, stored) ==
  [stored |-> IF ok THEN Item(newDesks) ELSE stored,
   alias |-> IF ok /\ a = "none" THEN "array" ELSE a,
   layout |-> IF ok \/ a # "none" THEN << >> ELSE layout,
   threw |-> FALSE]

Failed(ok) == IF ok THEN 0 ELSE 1

Call(op, deskId, userName, userTeam, ret, threw) ==
  [op |-> op, deskId |-> deskId, userName |-> userName,
   userTeam |-> userTeam, ret |-> ret, threw |-> threw,
   again |-> (lastCall.op = op /\ lastCall.deskId = deskId)]

\* An early 'return false': nothing is written.
Rejected(op, deskId) ==
  /\ lastCall' = Call(op, deskId, "", "", FALSE, FALSE)
  /\ UNCHANGED << desks, historyData, lsLayout, lsHistory, alias,
                  layoutDesks, now, reservedSince, failures >>

(***************************************************************************)
(* reserveSeat(deskId, userName, userTeam = 'Engineering', startDate?,     *)
(* endDate?).  histOk and layoutOk say whether the two localStorage        *)
(* writes of the call succeed.                                             *)
(***************************************************************************)
\* desk.status = 'occupied'; desk.reserved_for = userName
OccupyDesk(desk, userName) ==
  [desk EXCEPT !.status = "occupied", !.reserved_for = userName]

reserveSeatOk(deskId, userName, userTeam, startDate, endDate, histOk, layoutOk) ==
  LET i == getDeskById(desks, deskId)
      team == IF userTeam = UNDEF THEN DefaultTeam ELSE userTeam
      bookingStartDate == IF startDate = NoDate THEN now ELSE startDate
      bookingEndDate ==
        IF endDate = NoDate THEN now + BookingDays * TicksPerDay ELSE endDate
      newDesks == [desks EXCEPT ![i] = OccupyDesk(desks[i], userName)]
      added ==
        addBookingToHistory(historyData,
          [employeeId |-> generateEmployeeId(userName),
           employeeName |-> userName,
           team |-> team,
           deskId |-> deskId,
           startDate |-> bookingStartDate,
           endDate |-> bookingEndDate],
          histOk, lsHistory)
      persisted == persistToStorage(newDesks, alias, layoutDesks, layoutOk, lsLayout)
  IN /\ desks' = newDesks
     /\ historyData' = added.history
     /\ lsHistory' = added.stored
     /\ IF added.threw
          THEN /\ UNCHANGED << lsLayout, alias, layoutDesks >>
               /\ lastCall' = Call("reserveSeat", deskId, userName, team, FALSE, TRUE)
               /\ failures' = failures + Failed(histOk)
          ELSE /\ lsLayout' = persisted.stored
               /\ alias' = persisted.alias
               /\ layoutDesks' = persisted.layout
               /\ lastCall' = Call("reserveSeat", deskId, userName, team,
                                   ~persisted.threw, persisted.threw)
               /\ failures' = failures + Failed(histOk) + Failed(layoutOk)
     /\ reservedSince' = reservedSince \cup {deskId}
     /\ UNCHANGED now

reserveSeat(deskId, userName, userTeam, startDate, endDate, histOk, layoutOk) ==
  IF getDeskById(desks, deskId) = 0
    THEN Rejected("reserveSeat", deskId)
  ELSE IF ~isSeatAvailable(desks, deskId)
    THEN Rejected("reserveSeat", deskId)
  ELSE /\ Len(historyData) < MaxLedger
       /\ reserveSeatOk(deskId, userName, userTeam, startDate, endDate,
                        histOk, layoutOk)

(***************************************************************************)
(* releaseSeat(deskId).                                                    *)
(***************************************************************************)
\* desk.reserved_for || ''
OccupantOrEmpty(desk) ==
  IF desk.reserved_for \in {NULL, ""} THEN "" ELSE desk.reserved_for

\* Mutant: the occupant is not cleared.
FreeDesk_keepsOccupant(desk) == [desk EXCEPT !.status = "available"]

\* desk.status = 'available'; desk.reserved_for = null
FreeDesk(desk) ==
  [desk EXCEPT !.status = "available", !.reserved_for = NULL]

releaseSeatOk(deskId, histOk, layoutOk) ==
  LET i == getDeskById(desks, deskId)
      who == OccupantOrEmpty(desks[i])
      employeeId == generateEmployeeId(who)
      removed == removeBookingFromHistory(historyData, deskId, employeeId,
                                          histOk, lsHistory)
      newDesks == [desks EXCEPT ![i] = FreeDesk(desks[i])]
      persisted == persistToStorage(newDesks, alias, layoutDesks, layoutOk, lsLayout)
      histFailed == IF removed.wrote THEN Failed(histOk) ELSE 0
  IN /\ historyData' = removed.history
     /\ lsHistory' = removed.stored
     /\ IF removed.threw
          THEN /\ UNCHANGED << desks, lsLayout, alias, layoutDesks,
                               reservedSince >>
               /\ lastCall' = Call("releaseSeat", deskId, who, "", FALSE, TRUE)
               /\ failures' = failures + histFailed
          ELSE /\ desks' = newDesks
               /\ lsLayout' = persisted.stored
               /\ alias' = persisted.alias
               /\ layoutDesks' = persisted.layout
               /\ lastCall' = Call("releaseSeat", deskId, who, "",
                                   ~persisted.threw, persisted.threw)
               /\ reservedSince' = reservedSince \ {deskId}
               /\ failures' = failures + histFailed + Failed(layoutOk)
     /\ UNCHANGED now

releaseSeat(deskId, histOk, layoutOk) ==
  LET i == getDeskById(desks, deskId) IN
  IF i = 0
    THEN Rejected("releaseSeat", deskId)
  ELSE IF desks[i].team = ReservedTeam
    THEN Rejected("releaseSeat", deskId)
  ELSE releaseSeatOk(deskId, histOk, layoutOk)

(***************************************************************************)
(* resetToInitialState().                                                  *)
(***************************************************************************)
\* Mutant: Reserved team seats are reset like any other seat.
ResetDesk_freesAll(desk) ==
  [desk EXCEPT !.status = "available", !.reserved_for = NULL]

\* Mutant: a Reserved team seat is flipped instead of forced to occupied.
ResetDesk_flips(desk) ==
  IF desk.team = ReservedTeam
    THEN IF desk.status = "occupied"
           THEN [desk EXCEPT !.status = "available", !.reserved_for = NULL]
           ELSE [desk EXCEPT !.status = "occupied",
                             !.reserved_for = ReservedOccupant]
    ELSE [desk EXCEPT !.status = "available", !.reserved_for = NULL]

ResetDesk(desk) ==
  IF desk.team = ReservedTeam
    THEN [desk EXCEPT !.status = "occupied", !.reserved_for = ReservedOccupant]
    ELSE [desk EXCEPT !.status = "available", !.reserved_for = NULL]

ResetDesks(ds) == [i \in DOMAIN ds |-> ResetDesk(ds[i])]

resetToInitialState(layoutOk) ==
  LET newDesks == ResetDesks(desks)
      \* data.desks is assigned a fresh array: an array shared with
      \* officeLayoutData stays behind unless data is that very object
      newAlias == IF alias = "object" THEN "object" ELSE "none"
      newLayout == IF alias = "array" THEN desks ELSE layoutDesks
      persisted == persistToStorage(newDesks, newAlias, newLayout, layoutOk, lsLayout)
  IN /\ desks' = newDesks
     /\ lsLayout' = persisted.stored
     /\ alias' = persisted.alias
     /\ layoutDesks' = persisted.layout
     /\ lastCall' = Call("resetToInitialState", "", "", "", FALSE, persisted.threw)
     /\ reservedSince' = {}
     /\ failures' = failures + Failed(layoutOk)
     /\ UNCHANGED << historyData, lsHistory, now >>

\* Mutant: the form submits while a request is outstanding.
HandleSendMessage_whileLoading(content) ==
  LET first == InitialRecommendations(content, seats, historyData, zones,
                                      currentHour, sharedPreferences,
                                      sampleSchedule)
  IN /\ IF first.noWindow
          THEN /\ response' = Response(<< >>, << >>, FALSE)
               /\ UNCHANGED << isLoading, request >>
          ELSE /\ isLoading' = TRUE
               /\ request' = [pending |-> TRUE, message |-> content,
                              recommendations |-> first.recommendations]
               /\ response' = NoResponse
     /\ bookedInFlight' = {}
     /\ sharedPreferences' = BaseAfterExtract(content, sharedPreferences)
     /\ UNCHANGED << resVars, seats, zones, currentHour, scoreCall,
                     extractCalls >>

\* handleSendMessage up to the await inside processUserMessage; the
\* 'no window seats' return completes without reaching the LLM call.
HandleSendMessage(content) ==
  LET first == InitialRecommendations(content, seats, historyData, zones,
                                      currentHour, sharedPreferences,
                                      sampleSchedule)
  IN /\ ~isLoading
     /\ IF first.noWindow
          THEN /\ response' = Response(<< >>, << >>, FALSE)
               /\ UNCHANGED << isLoading, request >>
          ELSE /\ isLoading' = TRUE
               /\ request' = [pending |-> TRUE, message |-> content,
                              recommendations |-> first.recommendations]
               /\ response' = NoResponse
     /\ bookedInFlight' = {}
     /\ sharedPreferences' = BaseAfterExtract(content, sharedPreferences)
     /\ UNCHANGED << resVars, seats, zones, currentHour, scoreCall,
                     extractCalls >>

\* The LLM call returns aiMessage: processUserMessage lines 146-166 and the
\* rest of handleSendMessage.
LLMRespond(aiMessage) ==
  LET llmRecommendedSeats == extractSeatIDsFromLLMResponse(aiMessage)
      finalRecommendations ==
        IF Len(llmRecommendedSeats) > 0
          THEN alignRecommendationsWithLLM(llmRecommendedSeats,
                                           request.recommendations, seats)
          ELSE request.recommendations
  IN /\ request.pending
     /\ response' = Response(aiMessage, Take(finalRecommendations, 3), FALSE)
     /\ request' = NoRequest
     /\ isLoading' = FALSE
     /\ UNCHANGED << resVars, seats, zones, currentHour, bookedInFlight,
                  scoreCall, sharedPreferences, extractCalls >>

\* handleSeatingRequest, reached from handleFallbackResponse.
handleSeatingRequest(message, userPreferences, userSchedule) ==
  Take(generateRecommendations(seats, historyData, zones, currentHour,
                               userPreferences, userSchedule), 3)

\* Mutant: the error of the LLM call is rethrown and ends in the catch of
\* handleSendMessage, which shows an error message.
LLMFail_rethrows ==
  /\ request.pending
  /\ response' = Response(<< >>, << >>, FALSE)
  /\ request' = NoRequest
  /\ isLoading' = FALSE
  /\ UNCHANGED << resVars, seats, zones, currentHour, bookedInFlight,
                  scoreCall, sharedPreferences, extractCalls >>

\* The LLM call throws: the catch of processUserMessage answers locally.
LLMFail ==
  /\ request.pending
  /\ response' =
       Response(<< >>,
                IF isSeatingRequest(request.message)
                  THEN handleSeatingRequest(request.message,
                                            sharedPreferences,
                                            sampleSchedule)
                  ELSE << >>,
                TRUE)
  /\ request' = NoRequest
  /\ isLoading' = FALSE
  /\ UNCHANGED << resVars, seats, zones, currentHour, bookedInFlight,
                  scoreCall, sharedPreferences, extractCalls >>

\* setSeats(prev => prev.map(...)), then the effect aiEngine.seats = seats
MarkBooked(ss, seatId) ==
  [i \in DOMAIN ss |->
     IF Catalog[i].desk_id = seatId
       THEN [ss[i] EXCEPT !.isAvailable = FALSE, !.currentUser = UiUserName]
       ELSE ss[i]]

\* handleBookSeat(seat): the seat is reserved for 'You' in the user's team.
handleBookSeat(seatId, histOk, layoutOk) ==
  /\ reserveSeat(seatId, UiUserName, sharedPreferences.team, NoDate,
                 NoDate, histOk, layoutOk)
  /\ IF lastCall'.ret
       THEN /\ seats' = MarkBooked(seats, seatId)
            /\ bookedInFlight' =
                 IF request.pending THEN bookedInFlight \cup {seatId}
                 ELSE bookedInFlight
       ELSE UNCHANGED << seats, bookedInFlight >>
  /\ response' = NoResponse
  /\ UNCHANGED << zones, currentHour, isLoading, request, scoreCall,
                  sharedPreferences, extractCalls >>

\* The wall clock advances.
Tick ==
  /\ now < MaxNow
  /\ now' = now + 1
  /\ UNCHANGED << desks, historyData, lsLayout, lsHistory, alias,
                  layoutDesks, lastCall, reservedSince, failures >>
  /\ UNCHANGED chatVars

\* The arguments a call can act on: a call that returns at one of the early
\* 'return false' reads neither its other arguments nor localStorage.
OneOf(S) == {CHOOSE x \in S : TRUE}
WriteOutcomes == BOOLEAN \X BOOLEAN
WithinFailureBound(oks) ==
  failures + Failed(oks[1]) + Failed(oks[2]) <= MaxFailures

ReserveAction ==
  \E deskId \in DeskIdInputs :
    \E in \in IF isSeatAvailable(desks, deskId)
                THEN ReserveInputs ELSE OneOf(ReserveInputs),
       oks \in IF isSeatAvailable(desks, deskId)
                 THEN {o \in WriteOutcomes : WithinFailureBound(o)}
                 ELSE {<<TRUE, TRUE>>} :
      /\ reserveSeat(deskId, in[1], in[2], in[3], in[4], oks[1], oks[2])
      /\ UNCHANGED chatVars

ReleaseAction ==
  \E deskId \in DeskIdInputs :
    \E oks \in {o \in WriteOutcomes : WithinFailureBound(o)} :
      /\ releaseSeat(deskId, oks[1], oks[2])
      \* the outcomes drawn are those of the writes the call makes
      /\ failures' = failures + Failed(oks[1]) + Failed(oks[2])
      /\ UNCHANGED chatVars

ResetAction ==
  \E layoutOk \in BOOLEAN :
    /\ failures + Failed(layoutOk) <= MaxFailures
    /\ resetToInitialState(layoutOk)
    /\ UNCHANGED chatVars

Next == ReserveAction \/ ReleaseAction \/ ResetAction \/ Tick

Spec == Init /\ [][Next]_vars

(***************************************************************************)
(* Page refresh: the modules are loaded again from the JSON files, the     *)
(* ledger and the seat service read localStorage, App is rendered.         *)
(***************************************************************************)
\* office_layout.json as shipped: the documented initial state.
JsonDesks == [i \in DeskIdx |-> ResetDesk(Desk(i, "available", NULL))]

\* seat_history.json as shipped.
JsonHistory == << SeedEntry >>

\* Mutant: the stored item is never read.
Reload_ignoresStorage(item, json) == json

\* const stored = localStorage.getItem(key);
\* if (stored) { <data> = JSON.parse(stored) }
Reload(item, json) == IF item.present THEN item.value ELSE json

\* SeatService.loadFromStorage(): with a stored item this.data becomes a
\* fresh object and the imported officeLayoutData keeps the array it had.
loadFromStorage(ds, a, layout, stored) ==
  [desks |-> Reload(stored, ds),
   alias |-> IF stored.present THEN "none" ELSE a,
   layout |-> IF stored.present /\ a # "none" THEN ds ELSE layout,
   ret |-> stored.present]

\* The page is loaded: the module initialisers run (the catalog and the
\* ledger are the JSON files, the ledger reads localStorage), then the
\* first render of App calls seatService.loadFromStorage().
Refresh ==
  LET loaded == loadFromStorage(JsonDesks, "object", << >>, lsLayout) IN
  /\ historyData' = Reload(lsHistory, JsonHistory)
  /\ desks' = loaded.desks
  /\ alias' = loaded.alias
  /\ layoutDesks' = loaded.layout
  /\ lastCall' = Call("loadFromStorage", "", "", "", loaded.ret, FALSE)
  /\ reservedSince' = {}
  /\ UNCHANGED << lsLayout, lsHistory, now, failures >>
  /\ UNCHANGED chatVars

\* The state a first visit starts in: nothing is stored.
InitRefresh ==
  /\ InitService([i \in DeskIdx |-> {JsonDesks[i]}])
  /\ historyData = JsonHistory
  /\ NotMounted

NextRefresh ==
  ReserveAction \/ ReleaseAction \/ ResetAction \/ Tick \/ Refresh

SpecRefresh == InitRefresh /\ [][NextRefresh]_vars

(***************************************************************************)
(* The chat: messages sent, LLM calls answered or failed, seats booked     *)
(* from the map while a call is outstanding.                               *)
(***************************************************************************)
\* What the LLM may answer: no seat mention, seats of the catalog with a
\* percentage, a seat that does not exist, more than three mentions.
Texts ==
  { << Words >>,
    << Words, Mention("ENG-S-01", 95) >>,
    << Mention("RIS-NW-01", 90), Words, Mention("PRO-NE-12", 85) >>,
    << Mention(UnknownId, 70) >>,
    << Mention("DEV-W-05", 99), Mention("ENG-SW-37", 98),
       Mention("PRO-NE-12", 97), Mention("ENG-S-01", 96) >> }

SendAction == \E content \in Messages : HandleSendMessage(content)

RespondAction == \E aiMessage \in Texts : LLMRespond(aiMessage)

\* The seats the user picks on the map.
BookSeatInputs == {"ENG-S-01", "ENG-SW-37", "PRO-NE-12", "RES-S-64"}

BookAction ==
  \E seatId \in BookSeatInputs :
    \E oks \in IF isSeatAvailable(desks, seatId)
                 THEN {o \in WriteOutcomes : WithinFailureBound(o)}
                 ELSE {<<TRUE, TRUE>>} :
      handleBookSeat(seatId, oks[1], oks[2])

\* The documented initial state: every seat available, except the Reserved
\* team's, which are occupied.
FreshDeskStates(i) == {ResetDesk(Desk(i, "available", NULL))}

InitChat ==
  InitService([i \in DeskIdx |-> FreshDeskStates(i)]) /\ InitApp(Hours)

NextChat == SendAction \/ RespondAction \/ LLMFail \/ BookAction

SpecChat == InitChat /\ [][NextChat]_vars

\* A morning visit with the shipped ledger.
InitChatLive ==
  /\ InitService([i \in DeskIdx |-> FreshDeskStates(i)])
  /\ historyData = << SeedEntry >>
  /\ InitApp({MorningHour})

\* The LLM call that processUserMessage awaits eventually returns or
\* throws.
SpecChatLive ==
  InitChatLive /\ [][NextChat]_vars /\ WF_vars(RespondAction \/ LLMFail)

(***************************************************************************)
(* The Reconciler on its own: a request is suspended at the LLM call with  *)
(* the list the Ranker gave it, seats have been booked since, and the LLM  *)
(* answers.                                                                *)
(***************************************************************************)
\* The seats that can be available: all but the Reserved team's.
Bookable == {i \in DeskIdx : Catalog[i].team # ReservedTeam}

\* React 'seats' when exactly the seats of A are available.
SeatsWith(A) ==
  [i \in DeskIdx |->
     [isAvailable |-> i \in A,
      currentUser |-> IF i \in A THEN NULL
                      ELSE IF Catalog[i].team = ReservedTeam
                        THEN ReservedOccupant ELSE UiUserName]]

\* LLM answers: no mention; three distinct seats; an unknown seat; more than
\* three mentions; a seat named twice; percentages of three digits; a
\* Reserved team seat.
ReconcileTexts ==
  { << Words >>,
    << Mention("RIS-NW-01", 90), Mention("DEV-W-05", 85), Words,
       Mention("ENG-SW-37", 70) >>,
    << Mention("ENG-S-01", 95), Mention("PRO-NE-12", 92),
       Mention("ENG-SW-37", 89) >>,
    << Mention(UnknownId, 70), Mention("ENG-S-01", 95) >>,
    << Mention("DEV-W-05", 99), Mention("ENG-SW-37", 98),
       Mention("PRO-NE-12", 97), Mention("ENG-S-01", 96) >>,
    << Mention("ENG-S-01", 95), Mention("ENG-S-01", 60) >>,
    << Mention("PRO-NE-12", 150), Mention("ENG-S-01", 999) >>,
    << Mention("RES-S-64", 80), Mention("RIS-NW-01", 0) >> }

SeatingMessages == {m \in Messages : isSeatingRequest(m)}

\* The seats of 'before' were available when the message was sent, those
\* of 'live' still are: the others have been booked.  The ledger and the
\* stored items, which the Reconciler does not read, are left as they were.
InitReconcile ==
  \E before \in SUBSET Bookable, content \in SeatingMessages :
    \E live \in SUBSET before :
      /\ desks = [i \in DeskIdx |->
                    IF i \in live \/ i \notin Bookable
                      THEN ResetDesk(Desk(i, "available", NULL))
                      ELSE Desk(i, "occupied", UiUserName)]
      /\ historyData = << >>
      /\ lsLayout = NoItem
      /\ lsHistory = NoItem
      /\ alias = "object"
      /\ layoutDesks = << >>
      /\ now = 0
      /\ lastCall = NoCall
      /\ reservedSince = {}
      /\ failures = 0
      /\ seats = SeatsWith(live)
      /\ zones = deriveZonesFromDesks([i \in DeskIdx |->
                                         ResetDesk(Desk(i, "available", NULL))])
      /\ currentHour = MorningHour
      /\ isLoading = TRUE
      /\ response = NoResponse
      /\ bookedInFlight = {}
      /\ scoreCall = NotScored
      /\ sharedPreferences = sampleUserPreferences
      /\ extractCalls = << >>
      /\ LET first == InitialRecommendations(content, SeatsWith(before),
                                             historyData, zones, currentHour,
                                             sampleUserPreferences,
                                             sampleSchedule)
         IN /\ ~first.noWindow
            /\ request = [pending |-> TRUE, message |-> content,
                          recommendations |-> first.recommendations]

ReconcileAction == \E aiMessage \in ReconcileTexts : LLMRespond(aiMessage)

SpecReconcile == InitReconcile /\ [][ReconcileAction]_vars

(***************************************************************************)
(* The Scoring Engine on its own: calculateSeatScore for seats, profiles,  *)
(* schedules, zone activities and ledgers of every kind.                   *)
(***************************************************************************)
ZoneTypes == {"quiet", "focus", "collaborative", "social", "meeting"}
Activities == {0, 50, 100}

\* Seats of the Seat type: a seat of the user's team and one of another
\* team, in every zone, with and without window view and cold area.
ScoreSeats ==
  [id : {"ENG-S-01", "RIS-NW-01"},
   zone : ZoneTypes,
   features : {<< >>, << "monitor", "window-view" >>},
   toNearestWindow : {10},
   aisle : {TRUE},
   isColdArea : BOOLEAN,
   window : {FALSE}]

\* Profiles of the UserPreferences type.
ScoreProfiles ==
  [team : {"Engineering"},
   workStyle : {"quiet", "social", "mixed"},
   collaborationNeeds : {"high", "low"},
   preferredZones : {{}, {"collaborative", "focus"}},
   timePreferences : {[morningPerson |-> TRUE, afternoonFocus |-> TRUE],
                      [morningPerson |-> FALSE, afternoonFocus |-> FALSE]},
   seatFeatures : {<< "monitor", "window-view", "standing-desk" >>},
   amenityPreferences :
     {[avoidColdAreas |-> TRUE, preferAisle |-> TRUE,
       nearMeetingRooms |-> TRUE],
      [avoidColdAreas |-> FALSE, preferAisle |-> FALSE,
       nearMeetingRooms |-> FALSE]},
   nearWindow : BOOLEAN]

ScoreSchedules == {<< >>, sampleSchedule}

\* One zone of every type, in the order of the ZoneType enum.
ZonesWith(activity) ==
  [k \in 1..5 |->
     [type |-> << "quiet", "social", "collaborative", "focus", "meeting" >>[k],
      name |-> "",
      currentActivity |-> activity]]

InitScore ==
  /\ InitService([i \in DeskIdx |-> FreshDeskStates(i)])
  /\ seats = InitialSeats(desks)
  /\ zones \in {ZonesWith(activity) : activity \in Activities}
  /\ currentHour = MorningHour
  /\ isLoading = FALSE
  /\ request = NoRequest
  /\ response = NoResponse
  /\ bookedInFlight = {}
  /\ scoreCall = NotScored
  /\ sharedPreferences = sampleUserPreferences
  /\ extractCalls = << >>

\* calculateSeatScore(seat, preferences, schedule) and what it returns.
CalculateAction ==
  \E seat \in ScoreSeats, preferences \in ScoreProfiles,
     schedule \in ScoreSchedules :
    /\ ~scoreCall.called
    /\ scoreCall' = [called |-> TRUE, seat |-> seat,
                  preferences |-> preferences, schedule |-> schedule,
                  score |-> calculateSeatScore(historyData, zones,
                                               currentHour, seat,
                                               preferences, schedule)]
    /\ UNCHANGED << resVars, seats, zones, currentHour, isLoading, request,
                    response, bookedInFlight, sharedPreferences,
                    extractCalls >>

SpecScore == InitScore /\ [][CalculateAction]_vars

(***************************************************************************)
(* extractPreferencesFromMessage on its own: a base profile, the same      *)
(* object for every call, and some messages.                               *)
(***************************************************************************)
MaxCalls == 2

ExtractMessages ==
  Messages \cup {"Standing desk with a monitor and a view"}

\* Base profiles: the feature wishlist may lack what a message asks for.
BaseProfiles ==
  {[sampleUserPreferences EXCEPT !.seatFeatures = features, !.team = team] :
     features \in {<< >>, << "monitor" >>, << "window-view" >>,
                   << "monitor", "window-view", "standing-desk" >>},
     team \in {"Engineering", ""}}

InitExtract ==
  /\ InitService([i \in DeskIdx |-> FreshDeskStates(i)])
  /\ seats = << >>
  /\ zones = << >>
  /\ currentHour = 0
  /\ isLoading = FALSE
  /\ request = NoRequest
  /\ response = NoResponse
  /\ bookedInFlight = {}
  /\ scoreCall = NotScored
  /\ sharedPreferences \in BaseProfiles
  /\ extractCalls = << >>

\* extractPreferencesFromMessage(message, basePreferences): what it was
\* given, what it returned, and what it left in the object it was given.
ExtractAction ==
  \E message \in ExtractMessages :
    /\ Len(extractCalls) < MaxCalls
    /\ extractCalls' =
         Append(extractCalls,
                [message |-> message,
                 base |-> sharedPreferences,
                 returned |-> extractPreferencesFromMessage(message,
                                                            sharedPreferences)])
    /\ sharedPreferences' = BaseAfterExtract(message, sharedPreferences)
    /\ UNCHANGED << resVars, seats, zones, currentHour, isLoading, request,
                    response, bookedInFlight, scoreCall >>

SpecExtract == InitExtract /\ [][ExtractAction]_vars


(***************************************************************************)
(* Properties of the Reservation Manager.                                  *)
(***************************************************************************)
IsReserve(deskId) ==
  \E in \in ReserveInputs, oks \in WriteOutcomes :
    reserveSeat(deskId, in[1], in[2], in[3], in[4], oks[1], oks[2])

IsRelease(deskId) ==
  \E oks \in WriteOutcomes : releaseSeat(deskId, oks[1], oks[2])

IsReset == \E layoutOk \in BOOLEAN : resetToInitialState(layoutOk)

CatalogUnchanged == desks' = desks
LedgerUnchanged == historyData' = historyData

\* C1: reserveSeat on a seat that is not available (occupied, or of the
\* Reserved team) returns false and changes neither a seat nor the ledger;
\* a seat reserved with no release/reset since is never reserved again, and
\* an occupant is never overwritten by reserveSeat.
C1_NoDoubleBooking ==
  [][\A deskId \in DeskIdInputs \cap CatalogIds :
       LET i == getDeskById(desks, deskId) IN
       IsReserve(deskId) =>
         /\ (desks[i].status # "available" \/ desks[i].team = ReservedTeam)
              => /\ lastCall'.ret = FALSE
                 /\ CatalogUnchanged
                 /\ LedgerUnchanged
         /\ lastCall'.ret => deskId \notin reservedSince
         /\ desks[i].reserved_for # NULL
              => desks'[i].reserved_for = desks[i].reserved_for]_vars

\* C1 witness: a second reserveSeat right after a successful one on the same
\* seat was rejected.
C1_Witness ==
  /\ lastCall.op = "reserveSeat"
  /\ lastCall.again
  /\ lastCall.ret = FALSE
  /\ lastCall.deskId \in reservedSince
  /\ desks[getDeskById(desks, lastCall.deskId)].status = "occupied"

\* C2: a seat of the Reserved team keeps its status and occupant across
\* every reserveSeat and releaseSeat, and both calls on it return false, also
\* when its stored status is 'available'.
C2_ReservedTeamProtected ==
  [][\A i \in DeskIdx :
       desks[i].team = ReservedTeam =>
         /\ (ReserveAction \/ ReleaseAction) => desks'[i] = desks[i]
         /\ IsRelease(desks[i].desk_id) => lastCall'.ret = FALSE
         /\ IsReserve(desks[i].desk_id) => lastCall'.ret = FALSE]_vars

\* C2 witness: reserveSeat was rejected on a Reserved team seat stored as
\* available.
C2_Witness ==
  /\ lastCall.op = "reserveSeat"
  /\ lastCall.ret = FALSE
  /\ \E i \in DeskIdx :
       /\ desks[i].desk_id = lastCall.deskId
       /\ desks[i].team = ReservedTeam
       /\ desks[i].status = "available"

\* C3: a seat has an occupant exactly when its status is occupied.
C3_OccupantIffOccupied ==
  \A i \in DeskIdx :
    (desks[i].reserved_for # NULL) <=> (desks[i].status = "occupied")

\* C3 witness: a seat was booked and released again.
C3_Witness ==
  /\ lastCall.op = "releaseSeat"
  /\ lastCall.ret
  /\ lastCall.userName \in UserNames
  /\ desks[getDeskById(desks, lastCall.deskId)].status = "available"

\* C4: reserveSeat on an available seat outside the Reserved team returns
\* true, makes exactly that seat occupied by the given name and appends one
\* ledger record with that seat id, name and team.
C4_ReserveEffect ==
  [][\A deskId \in DeskIdInputs \cap CatalogIds, in \in ReserveInputs, oks \in WriteOutcomes :
       LET i == getDeskById(desks, deskId)
           team == IF in[2] = UNDEF THEN DefaultTeam ELSE in[2]
       IN (/\ reserveSeat(deskId, in[1], in[2], in[3], in[4], oks[1], oks[2])
           /\ desks[i].status = "available"
           /\ desks[i].team # ReservedTeam)
          => /\ lastCall'.ret = TRUE
             /\ desks' = [desks EXCEPT ![i].status = "occupied",
                                       ![i].reserved_for = in[1]]
             /\ Len(historyData') = Len(historyData) + 1
             /\ SubSeq(historyData', 1, Len(historyData)) = historyData
             /\ historyData'[Len(historyData')].desk_id = deskId
             /\ historyData'[Len(historyData')].employee_name = in[1]
             /\ historyData'[Len(historyData')].team = team]_vars

\* C4 witness: a booking made for team Risk is the last ledger record.
C4_Witness ==
  /\ lastCall.op = "reserveSeat"
  /\ lastCall.ret
  /\ lastCall.userTeam = "Risk"
  /\ historyData # << >>
  /\ historyData[Len(historyData)].desk_id = lastCall.deskId
  /\ historyData[Len(historyData)].team = "Risk"

\* C6: releaseSeat on a seat outside the Reserved team returns true, leaves
\* it available with no occupant, leaves no ledger record of that seat with
\* the employee id of the released occupant, and the seat is available again.
C6_ReleaseEffect ==
  [][\A deskId \in DeskIdInputs \cap CatalogIds :
       LET i == getDeskById(desks, deskId) IN
       (IsRelease(deskId) /\ desks[i].team # ReservedTeam)
       => /\ lastCall'.ret = TRUE
          /\ desks'[i].status = "available"
          /\ desks'[i].reserved_for = NULL
          /\ desks[i].reserved_for # NULL =>
               \A k \in DOMAIN historyData' :
                 ~(/\ historyData'[k].desk_id = deskId
                   /\ historyData'[k].employee_id =
                        generateEmployeeId(desks[i].reserved_for))
          /\ isSeatAvailable(desks', deskId)]_vars

\* C6 witness: an occupant was released whose seat held two ledger records
\* under the occupant's employee id; none is left.
C6_Witness ==
  /\ lastCall.op = "releaseSeat"
  /\ lastCall.ret
  /\ lastCall.userName = "Aa"
  /\ lsHistory.present
  /\ Len(lsHistory.value) = 2
  /\ \A k \in DOMAIN lsHistory.value :
       /\ lsHistory.value[k].desk_id = lastCall.deskId
       /\ lsHistory.value[k].employee_id = "EA112"
  /\ historyData = << >>

\* C7: reserveSeat and releaseSeat with an id that matches no catalog entry
\* return false without throwing and change nothing.
C7_UnknownSeat ==
  [][\A deskId \in DeskIdInputs \ CatalogIds :
       (IsReserve(deskId) \/ IsRelease(deskId))
       => /\ lastCall'.ret = FALSE
          /\ lastCall'.threw = FALSE
          /\ UNCHANGED << desks, historyData, lsLayout, lsHistory >>]_vars

\* C7 witness: a call with the unknown id was made while a seat was booked.
C7_Witness ==
  /\ lastCall.deskId = UnknownId
  /\ lastCall.op = "releaseSeat"
  /\ lastCall.ret = FALSE
  /\ reservedSince # {}

\* C8: resetToInitialState leaves every seat outside the Reserved team
\* available with no occupant and every Reserved team seat occupied by
\* 'Reserved Team', and keeps the seats and their identities.
C8_ResetEffect ==
  [][IsReset =>
       /\ DOMAIN desks' = DOMAIN desks
       /\ \A i \in DOMAIN desks :
            /\ desks'[i].desk_id = desks[i].desk_id
            /\ desks'[i].team = desks[i].team
            /\ desks[i].team # ReservedTeam
                 => desks'[i].status = "available"
                    /\ desks'[i].reserved_for = NULL
            /\ desks[i].team = ReservedTeam
                 => desks'[i].status = "occupied"
                    /\ desks'[i].reserved_for = ReservedOccupant]_vars

\* C8 witness: a reset after two bookings.
C8_Witness ==
  /\ lastCall.op = "resetToInitialState"
  /\ Len(historyData) = 2
  /\ \A i \in DeskIdx : desks[i] = ResetDesk(desks[i])

\* C9: a second resetToInitialState in a row leaves the catalog as the first
\* one left it.
C9_ResetIdempotent ==
  [][(lastCall.op = "resetToInitialState" /\ IsReset) => desks' = desks]_vars

\* C9 witness: resetToInitialState was called twice in a row.
C9_Witness ==
  /\ lastCall.op = "resetToInitialState"
  /\ lastCall.again

\* C10: when a localStorage write fails during reserveSeat, releaseSeat or
\* resetToInitialState the call does not throw, reserveSeat and releaseSeat
\* return true, and catalog and ledger hold the completed operation.
C10_WriteFailureSwallowed ==
  [][/\ \A deskId \in DeskIdInputs \cap CatalogIds, in \in ReserveInputs,
          oks \in WriteOutcomes :
          LET i == getDeskById(desks, deskId) IN
          (/\ reserveSeat(deskId, in[1], in[2], in[3], in[4], oks[1], oks[2])
           /\ isSeatAvailable(desks, deskId)
           /\ ~(oks[1] /\ oks[2]))
          => /\ lastCall'.threw = FALSE
             /\ lastCall'.ret = TRUE
             /\ desks'[i].status = "occupied"
             /\ desks'[i].reserved_for = in[1]
             /\ Len(historyData') = Len(historyData) + 1
             /\ ~oks[1] => lsHistory' = lsHistory
             /\ ~oks[2] => lsLayout' = lsLayout
     /\ \A deskId \in DeskIdInputs \cap CatalogIds, oks \in WriteOutcomes :
          LET i == getDeskById(desks, deskId) IN
          (/\ releaseSeat(deskId, oks[1], oks[2])
           /\ desks[i].team # ReservedTeam
           /\ ~oks[2])
          => /\ lastCall'.threw = FALSE
             /\ lastCall'.ret = TRUE
             /\ desks'[i] = FreeDesk(desks[i])
             /\ lsLayout' = lsLayout
     /\ (resetToInitialState(FALSE))
          => /\ lastCall'.threw = FALSE
             /\ desks' = ResetDesks(desks)
             /\ lsLayout' = lsLayout]_vars

\* C10 witness: a booking whose catalog write failed: the catalog holds it,
\* localStorage does not.
C10_Witness ==
  /\ lastCall.op = "reserveSeat"
  /\ lastCall.ret
  /\ failures = 1
  /\ lsLayout = NoItem
  /\ desks[getDeskById(desks, lastCall.deskId)].status = "occupied"

(***************************************************************************)
(* Properties of the chat.                                                 *)
(***************************************************************************)
\* The seats of the list the last completed request delivered.
Delivered(r) == {r.recommendations[k].seat : k \in DOMAIN r.recommendations}

\* The outstanding request completes in this step.
Completes == request.pending /\ ~request'.pending

\* C5: when a suggestion request completes, the recommendation list it
\* delivers contains no seat that was reserved while the request was in
\* flight.
C5_ReservedInFlightDropped ==
  [][Completes => Delivered(response') \cap bookedInFlight = {}]_vars

(***************************************************************************)
(* Properties of persistence.                                              *)
(***************************************************************************)
\* C11: when the page is refreshed after calls whose localStorage writes
\* all succeeded, every seat of the loaded catalog has the status and the
\* occupant it had just before the refresh, and App derives its
\* availability from that status.
C11_BookingsSurviveRefresh ==
  [][(Refresh /\ failures = 0)
       => \A i \in DeskIdx :
            /\ desks'[i].status = desks[i].status
            /\ desks'[i].reserved_for = desks[i].reserved_for
            /\ InitialSeats(desks')[i].isAvailable
                 = (desks[i].status = "available")]_vars

\* C11 witness: a refresh has loaded a stored catalog with a booked seat,
\* every write having succeeded.
C11_Witness ==
  /\ lastCall.op = "loadFromStorage"
  /\ lastCall.ret
  /\ failures = 0
  /\ \E i \in DeskIdx :
       desks[i].status = "occupied" /\ desks[i].reserved_for = "Aa"
  /\ lsLayout.present
  /\ desks = lsLayout.value
  /\ desks # JsonDesks

\* C12: a failure of the LLM call ends the request with a local fallback
\* response and clears the loading flag; and, the call eventually returning
\* or failing, a loading chat always gets its reply with the flag cleared.
C12_FallbackAndReply ==
  /\ [][LLMFail => /\ response'.delivered
                   /\ response'.fallback
                   /\ ~isLoading'
                   /\ ~request'.pending]_vars
  /\ (isLoading ~> (~isLoading /\ response.delivered))

\* C12 witness: the LLM call failed on a seating request and the fallback
\* delivered locally ranked seats.
C12_Witness ==
  /\ response.delivered
  /\ response.fallback
  /\ ~isLoading
  /\ response.recommendations # << >>

(***************************************************************************)
(* The Reconciler.                                                         *)
(***************************************************************************)
\* The text holds exactly three mentions, of three different seats.
ThreeDistinct(text) ==
  /\ Len(Matches(text)) = 3
  /\ Cardinality({Matches(text)[k].seatId : k \in 1..3}) = 3

\* Every mention of the text names a seat of the catalog that is available.
AllAvailable(text, ss) ==
  \A k \in DOMAIN Matches(text) :
    /\ SeatIndex(Matches(text)[k].seatId) # 0
    /\ ss[SeatIndex(Matches(text)[k].seatId)].isAvailable

\* The mentions of the text as recommendations, scored with their percentage.
AsNamed(text) ==
  [k \in DOMAIN Matches(text) |->
     Rec(Matches(text)[k].seatId, Pts(Matches(text)[k].percentage))]

\* C13: when the LLM text holds three mentions of three different seats that
\* are all available, the delivered list is those three seats in the order
\* of their mentions, each scored with its percentage, whatever the
\* internal list holds.
C13_ThreeAvailableMentions ==
  [][\A text \in ReconcileTexts :
       (LLMRespond(text) /\ ThreeDistinct(text) /\ AllAvailable(text, seats))
         => response'.recommendations = AsNamed(text)]_vars

\* Three available seats were named and are delivered as named.
C13_Witness ==
  /\ response.delivered
  /\ ThreeDistinct(response.message)
  /\ response.recommendations =
       << Rec("RIS-NW-01", Pts(90)), Rec("DEV-W-05", Pts(85)),
          Rec("ENG-SW-37", Pts(70)) >>
  /\ \A i \in DeskIdx :
       Catalog[i].desk_id \in {"RIS-NW-01", "DEV-W-05", "ENG-SW-37"}
         => seats[i].isAvailable

\* The seat named seatId is not in the catalog, or it is neither in the
\* internal list nor available.
Dropped(seatId, originalRecommendations, ss) ==
  \/ SeatIndex(seatId) = 0
  \/ /\ RecIndex(originalRecommendations, seatId) = 0
     /\ ~ss[SeatIndex(seatId)].isAvailable

NoSeatAvailable(ss) == \A i \in DOMAIN ss : ~ss[i].isAvailable

\* C14: a mention of a seat that is unknown, or that is neither in the
\* internal list nor available, adds no entry to the delivered list, and the
\* response is delivered all the same; when no seat is available the Ranker
\* returns the empty list, and the Reconciler, given that list, returns the
\* empty list for every LLM text.
C14_DroppedMentions ==
  /\ [](NoSeatAvailable(seats)
          => generateRecommendations(seats, historyData, zones, currentHour,
                                     sampleUserPreferences, sampleSchedule)
               = << >>)
  /\ [][\A text \in ReconcileTexts :
          LLMRespond(text) =>
            /\ response'.delivered
            /\ \A k \in DOMAIN Matches(text) :
                 Dropped(Matches(text)[k].seatId, request.recommendations, seats)
                   => Matches(text)[k].seatId \notin Delivered(response')
            /\ (NoSeatAvailable(seats) /\ request.recommendations = << >>)
                 => response'.recommendations = << >>]_vars

\* The LLM named an unknown seat and an available one: only the second is
\* delivered as named.
C14_Witness ==
  /\ response.delivered
  /\ response.message = << Mention(UnknownId, 70), Mention("ENG-S-01", 95) >>
  /\ response.recommendations # << >>
  /\ response.recommendations[1] = Rec("ENG-S-01", Pts(95))
  /\ UnknownId \notin Delivered(response)

\* No seat is available and the LLM named seats all the same: nothing is
\* delivered.
C14_WitnessNoSeat ==
  /\ response.delivered
  /\ NoSeatAvailable(seats)
  /\ Matches(response.message) # << >>
  /\ response.recommendations = << >>

(***************************************************************************)
(* The Ranker.                                                             *)
(***************************************************************************)
\* The preferences the messages give.
Enhanced(message) ==
  extractPreferencesFromMessage(message, sampleUserPreferences)
Profiles == {Enhanced(message) : message \in Messages}

\* What generateRecommendations returns in the current state.
Ranked(preferences) ==
  generateRecommendations(seats, historyData, zones, currentHour,
                          preferences, sampleSchedule)

ScoreOf(preferences) ==
  [i \in {j \in DeskIdx : seats[j].isAvailable} |->
     calculateSeatScore(historyData, zones, currentHour, Seat(i),
                        preferences, sampleSchedule)]

\* Seat i comes before seat j: a higher score or, with the same score, an
\* earlier place in the catalog.
Before(score, i, j) ==
  score[i] > score[j] \/ (score[i] = score[j] /\ i < j)

\* recs is the list of the first five available seats in the order of
\* Before, each with its score.
IsTopFive(recs, score) ==
  /\ Len(recs) = Min(5, Cardinality(DOMAIN score))
  /\ \A k \in DOMAIN recs :
       /\ SeatIndex(recs[k].seat) \in DOMAIN score
       /\ recs[k].score = score[SeatIndex(recs[k].seat)]
  /\ \A k \in DOMAIN recs : \A l \in DOMAIN recs :
       k < l => Before(score, SeatIndex(recs[k].seat), SeatIndex(recs[l].seat))
  /\ \A k \in DOMAIN recs : \A i \in DOMAIN score :
       (\A l \in DOMAIN recs : SeatIndex(recs[l].seat) # i)
         => Before(score, SeatIndex(recs[k].seat), i)

\* C16: the Ranker returns at most five entries, in non-increasing order of
\* score, seats with the same score in catalog order; the list is the one
\* list that the clock, the catalog, the ledger, the profile and the
\* schedule determine, so that two calls return the same list.
C16_RankerOrder ==
  \A preferences \in Profiles :
    \A recs \in {Ranked(preferences)} : \A score \in {ScoreOf(preferences)} :
      /\ Len(recs) <= 5
      /\ \A k \in 1..(Len(recs) - 1) :
           /\ recs[k].score >= recs[k + 1].score
           /\ recs[k].score = recs[k + 1].score
                => SeatIndex(recs[k].seat) < SeatIndex(recs[k + 1].seat)
      /\ IsTopFive(recs, score)

\* Six seats are available, so that the sixth is cut off, and the request
\* holds a list of five with two seats of the same score.
C16_Witness ==
  /\ request.pending
  /\ Cardinality({i \in DeskIdx : seats[i].isAvailable}) = 6
  /\ request.recommendations = Ranked(Enhanced(request.message))
  /\ Len(request.recommendations) = 5
  /\ request.recommendations[1].score = request.recommendations[2].score

(***************************************************************************)
(* The Scoring Engine.                                                     *)
(***************************************************************************)
\* C17: for every seat, profile, schedule, zone activity between 0 and 100
\* and ledger, the score that calculateSeatScore returns is at least 0 and
\* at most 100 points.
C17_ScoreInRange ==
  scoreCall.called => (0 <= scoreCall.score /\ scoreCall.score <= Pts(100))

\* A seat in a cold area and away from the windows was scored for a profile
\* that avoids cold areas and asks for a window: both penalties apply.
C17_Witness ==
  /\ scoreCall.called
  /\ scoreCall.preferences.nearWindow
  /\ ~IsWindowSeat(scoreCall.seat)
  /\ scoreCall.preferences.amenityPreferences.avoidColdAreas
  /\ scoreCall.seat.isColdArea
  /\ scoreCall.score < Pts(50)

\* C18: every recommendation of a list delivered by the reconciliation of an
\* LLM text that mentions seats has a score of at least 0 and at most 100
\* points.
C18_ReconciledScoreInRange ==
  (response.delivered /\ Matches(response.message) # << >>)
    => \A k \in DOMAIN response.recommendations :
         /\ 0 <= response.recommendations[k].score
         /\ response.recommendations[k].score <= Pts(100)

\* The places of the mentions of the text that are used and not dropped.
Kept(text, originalRecommendations, ss) ==
  {k \in DOMAIN extractSeatIDsFromLLMResponse(text) :
     ~Dropped(extractSeatIDsFromLLMResponse(text)[k].seatId,
              originalRecommendations, ss)}

\* The places in the internal list of the seats that no kept mention names.
NotNamed(text, originalRecommendations, ss) ==
  {j \in DOMAIN originalRecommendations :
     \A k \in Kept(text, originalRecommendations, ss) :
       extractSeatIDsFromLLMResponse(text)[k].seatId
         # originalRecommendations[j].seat}

\* C19: when the mentions of the LLM text give fewer than three entries,
\* seats of the internal list that are not among them are appended until
\* the list has three entries or holds every seat of the internal list: its
\* length is min(3, entries from mentions + internal seats not among them).
C19_BackfillLength ==
  [][\A text \in ReconcileTexts :
       (/\ LLMRespond(text)
        /\ Matches(text) # << >>
        /\ Cardinality(Kept(text, request.recommendations, seats)) < 3)
         => Len(response'.recommendations)
              = Min(3, Cardinality(Kept(text, request.recommendations, seats))
                       + Cardinality(NotNamed(text, request.recommendations,
                                              seats)))]_vars

\* The used mentions of the text that are not dropped, in their order.
KeptMentions(text, originalRecommendations, ss) ==
  SelectSeq(extractSeatIDsFromLLMResponse(text),
            LAMBDA m : ~Dropped(m.seatId, originalRecommendations, ss))

\* recs[k] is the alternative made of place j of the internal list.
IsAlternative(rec, original) ==
  /\ rec.seat = original.seat
  /\ rec.score = Min(original.score - Pts(10), Pts(80))

\* recs is named followed by alternatives taken from the internal list in
\* its order, none of them a named seat.
NamedThenAlternatives(recs, named, originalRecommendations) ==
  /\ Len(recs) >= Len(named)
  /\ \A k \in DOMAIN named :
       recs[k] = Rec(named[k].seatId, Pts(named[k].percentage))
  /\ \E place \in [(Len(named) + 1)..Len(recs) -> DOMAIN originalRecommendations] :
       /\ \A k \in DOMAIN place :
            /\ IsAlternative(recs[k], originalRecommendations[place[k]])
            /\ \A l \in DOMAIN named : named[l].seatId # recs[k].seat
       /\ \A k \in DOMAIN place : \A l \in DOMAIN place :
            k < l => place[k] < place[l]

\* C20: the reconciled list holds first the seats the LLM named, in the
\* order of extraction and each with its percentage as score, then the
\* alternatives in the order of the internal list, each with score
\* min(original score - 10, 80); only the first three mentions are used.
C20_NamedThenBackfill ==
  [][\A text \in ReconcileTexts :
       (LLMRespond(text) /\ Matches(text) # << >>)
         => NamedThenAlternatives(response'.recommendations,
                                  KeptMentions(text, request.recommendations,
                                               seats),
                                  request.recommendations)]_vars

\* The LLM named an unknown seat and ENG-S-01 with 95%: ENG-S-01 comes first
\* with score 95, followed by two alternatives, the first with score 80.
C20_Witness ==
  /\ response.delivered
  /\ response.message = << Mention(UnknownId, 70), Mention("ENG-S-01", 95) >>
  /\ Len(response.recommendations) = 3
  /\ response.recommendations[1] = Rec("ENG-S-01", Pts(95))
  /\ response.recommendations[2].score = Pts(80)
  /\ response.recommendations[3].score < Pts(80)

\* The LLM named four seats: the fourth is not delivered as named.
C20_WitnessFourth ==
  /\ response.delivered
  /\ Len(Matches(response.message)) = 4
  /\ Len(response.recommendations) = 3
  /\ response.recommendations[3] = Rec("ENG-S-01", Pts(80))


(***************************************************************************)
(* Ledger records across the service operations.                           *)
(***************************************************************************)
\* The entries of h at the positions of keep, in the order of h.
KeptOf(h, keep) ==
  LET F[n \in 0..Len(h)] ==
        IF n = 0 THEN << >>
        ELSE IF n \in keep THEN Append(F[n - 1], h[n]) ELSE F[n - 1]
  IN F[Len(h)]

\* The ledger after the step is the ledger before it with some entries
\* left out, or with one entry added at the end: no entry that stays has
\* changed and the entries that stay keep their order.
NoEntryModified ==
  \/ \E keep \in SUBSET DOMAIN historyData :
       historyData' = KeptOf(historyData, keep)
  \/ /\ Len(historyData') = Len(historyData) + 1
     /\ SubSeq(historyData', 1, Len(historyData)) = historyData

\* C21: releaseSeat of a known seat that is not of the Reserved team leaves
\* in the ledger exactly the records that do not match both the released
\* seat id and the employee id derived from its occupant, in their order;
\* and no step of any operation changes a record that stays in the ledger.
C21_ReleaseRemovesOnlyMatching ==
  [][/\ \A deskId \in DeskIdInputs \cap CatalogIds :
          LET i == getDeskById(desks, deskId)
              employeeId == generateEmployeeId(OccupantOrEmpty(desks[i]))
          IN (IsRelease(deskId) /\ desks[i].team # ReservedTeam) =>
               historyData' =
                 SelectSeq(historyData,
                           LAMBDA entry : ~(/\ entry.desk_id = deskId
                                            /\ entry.employee_id = employeeId))
     /\ NoEntryModified]_vars

\* A release has just removed a record (the ledger was written by it) and
\* a record of the same seat booked under another employee id is still there.
C21_Witness ==
  /\ lastCall.op = "releaseSeat"
  /\ lastCall.ret = TRUE
  /\ Len(historyData) = 1
  /\ historyData[1].desk_id = lastCall.deskId
  /\ historyData[1].employee_id # generateEmployeeId(lastCall.userName)
  /\ lsHistory = Item(historyData)


\* The last call was a successful reserveSeat(deskId): it set the seat to
\* occupied and pushed one record at the end of the ledger.
JustReserved(deskId) ==
  /\ lastCall.op = "reserveSeat"
  /\ lastCall.deskId = deskId
  /\ lastCall.ret = TRUE

\* C22: releaseSeat called right after a successful reserveSeat of the same
\* seat restores the catalog and the ledger to their contents before the
\* reserve: the seat is available with no occupant, every other seat is
\* unchanged, and the ledger is the one the reserve extended by one record.
C22_ReserveReleaseRestores ==
  [][\A deskId \in DeskIdInputs \cap CatalogIds :
       LET i == getDeskById(desks, deskId) IN
       (JustReserved(deskId) /\ IsRelease(deskId)) =>
         /\ desks' = [desks EXCEPT ![i] = [@ EXCEPT !.status = "available",
                                                     !.reserved_for = NULL]]
         /\ historyData' = SubSeq(historyData, 1, Len(historyData) - 1)]_vars


(***************************************************************************)
(* The mounted App together with direct calls of the seat service.         *)
(***************************************************************************)
NextOffice == NextChat \/ ReleaseAction \/ ResetAction

SpecOffice == InitChatLive /\ [][NextOffice]_vars

\* The Ranker runs in this step: a seating request is sent, or the LLM call
\* of a seating request throws and the request is answered locally.
RankerRuns ==
  \/ \E content \in SeatingMessages : HandleSendMessage(content)
  \/ LLMFail /\ isSeatingRequest(request.message)

\* C23: whenever the Ranker runs, the seats it treats as available (the
\* isAvailable flag of the seats it was given) are exactly the seats for
\* which seatService.isSeatAvailable is true.
C23_RankerSeesLiveStatus ==
  [][RankerRuns =>
       \A i \in DOMAIN seats :
         seats[i].isAvailable <=>
           isSeatAvailable(desks, Catalog[i].desk_id)]_vars


(***************************************************************************)
(* The desk data the prompt of the LLM call is built from.                 *)
(***************************************************************************)
\* officeLayoutData.desks as buildContextData reads it: the seat service's
\* own array while the two are the same object or share the array, else
\* the array the imported object was left with.
officeLayoutDesks == IF alias = "none" THEN layoutDesks ELSE desks

\* C24: for every desk, the desk data read when the prompt is built has the
\* status and the occupant of the seat service's current catalog.
C24_PromptDataIsLive ==
  \A i \in DeskIdx :
    /\ officeLayoutDesks[i].status = desks[i].status
    /\ officeLayoutDesks[i].reserved_for = desks[i].reserved_for


\* C25: for a requester with a team, the history bonus of the seat that was
\* scored is 15 if that team is among the teams of the seat's ledger
\* records, plus the number of ledger records of the seat up to 5, the
\* total capped at 20.
C25_HistoryBonus ==
  (scoreCall.called /\ scoreCall.preferences.team # "") =>
    LET ks == {k \in DOMAIN historyData :
                 historyData[k].desk_id = scoreCall.seat.id}
        teamBonus ==
          IF \E k \in ks : historyData[k].team = scoreCall.preferences.team
            THEN 15 ELSE 0
        popularity == IF Cardinality(ks) < 5 THEN Cardinality(ks) ELSE 5
        total == teamBonus + popularity
    IN getHistoryBonus(historyData, scoreCall.seat, scoreCall.preferences)
         = IF total < 20 THEN total ELSE 20


\* C26: the object given as base profile has, after every call of the
\* Preference Extractor, the team, work style, collaboration need and
\* feature wishlist it had before the first call; and two calls with the
\* same message return the same profile.
C26_BaseUnchanged ==
  extractCalls # << >> =>
    LET first == extractCalls[1].base IN
    /\ sharedPreferences.team = first.team
    /\ sharedPreferences.workStyle = first.workStyle
    /\ sharedPreferences.collaborationNeeds = first.collaborationNeeds
    /\ sharedPreferences.seatFeatures = first.seatFeatures
    /\ \A j, k \in DOMAIN extractCalls :
         extractCalls[j].message = extractCalls[k].message
           => extractCalls[j].returned = extractCalls[k].returned

\* Two calls with a message asking for a view have been made on a base
\* profile whose wishlist has no 'window-view'; the returned profiles have
\* it, and another team, work style or wishlist than the base.
C26_Witness ==
  /\ Len(extractCalls) = 2
  /\ extractCalls[1].message = extractCalls[2].message
  /\ ~SeqIncludes(extractCalls[1].base.seatFeatures, "window-view")
  /\ SeqIncludes(extractCalls[2].returned.seatFeatures, "window-view")
  /\ extractCalls[2].returned # extractCalls[1].base


\* C27: a list delivered by the reconciliation of an LLM text that mentions
\* seats never holds the same seat id at two places.
C27_ReconciledNoDuplicate ==
  (response.delivered /\ Matches(response.message) # << >>)
    => \A j, k \in DOMAIN response.recommendations :
         response.recommendations[j].seat = response.recommendations[k].seat
           => j = k


(***************************************************************************)
(* The seat service called on its own from the documented initial state:   *)
(* only the seats of the Reserved team are occupied.                       *)
(***************************************************************************)
InitFresh ==
  InitService([i \in DeskIdx |-> FreshDeskStates(i)]) /\ NotMounted

SpecFresh == InitFresh /\ [][Next]_vars

\* The ledger has a record of the seat under the employee id derived from
\* the seat's occupant.
HasBookingRecord(i) ==
  \E k \in DOMAIN historyData :
    /\ historyData[k].desk_id = desks[i].desk_id
    /\ historyData[k].employee_id
         = generateEmployeeId(OccupantOrEmpty(desks[i]))

\* C28: every occupied seat that is not of the Reserved team has a ledger
\* record with its seat id and the employee id derived from its occupant.
C28_OccupiedHasRecord ==
  \A i \in DeskIdx :
    (desks[i].status = "occupied" /\ desks[i].team # ReservedTeam)
      => HasBookingRecord(i)

\* Two seats were reserved and one of them has just been released: the
\* other is still occupied and the ledger still has its record.
C28_Witness ==
  /\ lastCall.op = "releaseSeat"
  /\ lastCall.ret = TRUE
  /\ lastCall.userName # ""
  /\ \E i \in DeskIdx :
       /\ desks[i].status = "occupied"
       /\ desks[i].team # ReservedTeam
       /\ desks[i].desk_id # lastCall.deskId
       /\ HasBookingRecord(i)


(***************************************************************************)
(* BookingHistoryService.isDeskCurrentlyBooked.                            *)
(***************************************************************************)
\* today is new Date(): the dates are compared as YYYY-MM-DD strings, which
\* is the order of the days.
isDeskCurrentlyBooked(h, deskId, today) ==
  \E k \in DOMAIN h :
    /\ h[k].desk_id = deskId
    /\ h[k].start_date <= formatDate(today)
    /\ h[k].end_date >= formatDate(today)

\* Every ledger record of the seat was made by a reserveSeat call that left
\* the interval to its default, today to today + 7 days.
DefaultIntervalsOnly(deskId) ==
  \A k \in DOMAIN historyData :
    historyData[k].desk_id = deskId
      => historyData[k].end_date = historyData[k].start_date + BookingDays

\* C29: on the day the calls started, for every seat that is not of the
\* Reserved team, has no seeded history and was reserved with the default
\* interval only, isDeskCurrentlyBooked is true exactly when the seat's
\* status is occupied.
C29_LedgerAgreesWithCatalog ==
  \A i \in DeskIdx :
    (/\ desks[i].team # ReservedTeam
     /\ desks[i].desk_id # SeedEntry.desk_id
     /\ DefaultIntervalsOnly(desks[i].desk_id)
     /\ formatDate(now) = formatDate(0))
      => (isDeskCurrentlyBooked(historyData, desks[i].desk_id, now)
            <=> desks[i].status = "occupied")


\* C30: the loading flag is set exactly while a request is suspended at the
\* LLM call; no message is submitted while a request is outstanding; the
\* flag is set by the step that starts a request and cleared only by the
\* step in which that request resolves (the LLM call returns) or fails
\* (the LLM call throws), which delivers its response.
C30_OneOutstandingRequest ==
  [][/\ isLoading <=> request.pending
     /\ (\E content \in Messages : HandleSendMessage(content))
          => ~request.pending
     /\ (~isLoading /\ isLoading')
          => /\ \E content \in Messages : HandleSendMessage(content)
             /\ request'.pending
     /\ (isLoading /\ ~isLoading')
          => /\ RespondAction \/ LLMFail
             /\ ~request'.pending
             /\ response'.delivered]_vars

\* A request is outstanding with the flag set, and a seat has been booked
\* from the map since it started: other handlers run while it is awaited.
C30_Witness ==
  /\ isLoading
  /\ request.pending
  /\ bookedInFlight # {}

=============================================================================
